---- MODULE Spec2Model ----
(***************************************************************************)
(* Hermes API gateway: the request pipeline of gateway/router.py with its  *)
(* plugin chain (rate limiter, circuit breaker), the connection tracker    *)
(* and the route refresh that replaces the upstream instance objects.      *)
(*                                                                         *)
(* Time.  time.time() is a float number of seconds; the model clock `now`  *)
(* counts ticks of 1/TicksPerSec second.  Every float the code keeps is a  *)
(* fixed-point integer here:                                               *)
(*   - timeouts and timestamps: ticks;                                     *)
(*   - QPS settings: multiples of 1/RateDen token per second;              *)
(*   - the burst multiplier: multiples of 1/BurstDen;                      *)
(*   - bucket tokens and capacities: multiples of 1/TokenScale token,      *)
(*     TokenScale = TicksPerSec * RateDen * BurstDen, so that              *)
(*     elapsed * refill_rate and rate * burst_multiplier are exact.        *)
(* The event loop is single threaded: code between two suspension points   *)
(* (awaits that really wait: the upstream call) runs as one step.          *)
(***************************************************************************)
EXTENDS Integers, Sequences, FiniteSets, TLC

\* ------------------------------------------------------------- bounds
NumRequests == 2
MaxTime == 3
MaxRefresh == 1
MaxFailureThreshold == 2
MaxSuccessThreshold == 2
MaxTimeout == 2
TicksPerSec == 2
RateDen == 2
BurstDen == 2
\* idle seconds after which the janitor evicts a bucket (300 in the source)
max_idle_seconds == 1

TokenScale == TicksPerSec * RateDen * BurstDen

\* the route table: path patterns and the service each one targets
Routes == {"/a/**"}
Services == {"svc"}
target_service_id(route) == "svc"
IPs == {"10.0.0.1", "10.0.0.2"}
Generations == 0..MaxRefresh
\* the ServiceInstance objects: the target of a service's routes after each refresh
Instances == Services \X Generations
StartTime == MaxTimeout + 1
EndTime == StartTime + MaxTime

\* what the upstream call of one forwarded request ends in
UpstreamStatuses == {200, 404, 500}
Outcomes ==
    [kind : {"response"}, status : UpstreamStatuses]
        \cup [kind : {"transport_error", "timeout", "exception"}, status : {0}]

AuthOutcomes == {"pass", "deny"}

VARIABLES
    now,                \* time.time(), in ticks
    settings,           \* core/config.py Settings, fixed after start
    breakers,           \* CircuitBreakerPlugin._breakers: service id -> CircuitBreaker
    global_bucket,      \* RateLimitPlugin._global_bucket
    route_buckets,      \* RateLimitPlugin._route_buckets: route pattern -> TokenBucket
    ip_buckets,         \* RateLimitPlugin._ip_buckets: client ip -> TokenBucket
    generation,         \* number of successful route refreshes so far
    healthy,            \* healthy flag of the current ServiceInstance object of every service
    active_connections, \* ServiceInstance.active_connections of every object
    in_flight,          \* how many requests wait for the upstream call, per captured instance object
    streak,             \* history: failures recorded in a row since the breaker was CLOSED with failure_count 0
    granted,            \* history: tokens granted by every bucket at every instant
    last,               \* history: what the last step did
    failed_at,          \* history: when the last failure was recorded, per service
    _plugins,           \* PluginChain._plugins: the registered plugins, in execution order
    hooks,              \* history: the hooks the chain ran for the last request
    _remote_routes,     \* RouteCache._remote_routes
    _local_routes,      \* RouteCache._local_routes
    _registry_available,\* RouteCache._registry_available
    matched,            \* history: the last call of RouteMatcher.match and its result
    proxy,              \* proxy_request: its locals, its position and its trace
    pool,               \* the ServiceInstance objects, by id
    _counters,          \* RoundRobinBalancer._counters
    picked,             \* history: the last call of a balancer and what followed
    authed,             \* the request in the authentication plugin, and what followed
    _global,            \* MetricsCollector._global
    _by_route,          \* MetricsCollector._by_route: route pattern -> MetricsBucket
    _by_service,        \* MetricsCollector._by_service: service id -> MetricsBucket
    handled,            \* history: the requests gateway_proxy_handler answered, and the last answer
    path_match,         \* history: the last call of RouteMatcher.match_path and its result
    tasks,              \* every task's position in its code and the locks it holds
    unswept             \* the rate limiter's buckets had the janitor never run, and the last step

vars ==
    <<now, settings, breakers, global_bucket, route_buckets, ip_buckets,
      generation, healthy, active_connections, in_flight, streak, granted, last,
      failed_at, _plugins, hooks, _remote_routes, _local_routes, _registry_available, matched,
      proxy, pool, _counters, picked, authed,
      _global, _by_route, _by_service, handled, path_match, tasks, unswept>>

\* the state of the request pipeline
gatewayVars ==
    <<now, settings, breakers, global_bucket, route_buckets, ip_buckets,
      generation, healthy, active_connections, in_flight, streak, granted, last,
      failed_at>>

\* the state of the components that are modelled on their own
chainVars == <<_plugins, hooks>>
cacheVars == <<_remote_routes, _local_routes, _registry_available, matched>>
proxyVars == <<proxy>>
balancerVars == <<pool, _counters, picked>>
authVars == <<authed>>
metricsVars == <<_global, _by_route, _by_service, handled>>
matcherVars == <<path_match>>
lockVars == <<tasks>>
janitorVars == <<unswept>>
componentVars ==
    <<chainVars, cacheVars, proxyVars, balancerVars, authVars, metricsVars,
      matcherVars, lockVars, janitorVars>>

\* ------------------------------------------------------------- responses
\* a header is absent (<<>>) or holds one value (<<v>>)
NoHeader == <<>>
Resp(status, retry_after, circuit_state, ratelimit_type) ==
    [status |-> status, retry_after |-> retry_after,
     x_circuit_state |-> circuit_state, x_ratelimit_type |-> ratelimit_type]
NoResponse == Resp(0, NoHeader, "", "")
HTTPException(status) == Resp(status, NoHeader, "", "")

\* ------------------------------------------------------------- circuit breaker
CLOSED == "closed"
OPEN == "open"
HALF_OPEN == "half_open"

failure_threshold == settings.circuit_breaker_failure_threshold
success_threshold == settings.circuit_breaker_success_threshold
timeout == settings.circuit_breaker_timeout

CircuitBreaker ==
    [state |-> CLOSED, failure_count |-> 0, success_count |-> 0, last_failure_time |-> 0]

_trip(b) ==
    [b EXCEPT !.state = OPEN, !.failure_count = 0]

\* record_failure that stamps the time only while the breaker is not OPEN
record_failure_stamp_once(b, t) ==
    LET b1 == [b EXCEPT !.failure_count = @ + 1,
                        !.last_failure_time = IF b.state = OPEN THEN @ ELSE t]
    IN  IF b1.state = HALF_OPEN
        THEN _trip(b1)
        ELSE IF b1.failure_count >= failure_threshold
        THEN _trip(b1)
        ELSE b1

\* _reset that leaves success_count alone
_reset_keeps_successes(b) ==
    [b EXCEPT !.state = CLOSED, !.failure_count = 0]

_reset(b) ==
    [b EXCEPT !.state = CLOSED, !.failure_count = 0, !.success_count = 0]

\* record_success comparing with > instead of >=
record_success_late(b) ==
    IF b.state = HALF_OPEN
    THEN LET b1 == [b EXCEPT !.success_count = @ + 1]
         IN  IF b1.success_count > success_threshold THEN _reset(b1) ELSE b1
    ELSE IF b.state = CLOSED
    THEN [b EXCEPT !.failure_count = 0]
    ELSE b

\* record_success that leaves failure_count alone in CLOSED
record_success_keeps_failures(b) ==
    IF b.state = HALF_OPEN
    THEN LET b1 == [b EXCEPT !.success_count = @ + 1]
         IN  IF b1.success_count >= success_threshold THEN _reset(b1) ELSE b1
    ELSE b

record_success(b) ==
    IF b.state = HALF_OPEN
    THEN LET b1 == [b EXCEPT !.success_count = @ + 1]
         IN  IF b1.success_count >= success_threshold THEN _reset(b1) ELSE b1
    ELSE IF b.state = CLOSED
    THEN [b EXCEPT !.failure_count = 0]
    ELSE b

\* record_failure comparing with > instead of >=
record_failure_late(b, t) ==
    LET b1 == [b EXCEPT !.failure_count = @ + 1, !.last_failure_time = t]
    IN  IF b1.state = HALF_OPEN
        THEN _trip(b1)
        ELSE IF b1.failure_count > failure_threshold
        THEN _trip(b1)
        ELSE b1

record_failure(b, t) ==
    LET b1 == [b EXCEPT !.failure_count = @ + 1, !.last_failure_time = t]
    IN  IF b1.state = HALF_OPEN
        THEN _trip(b1)
        ELSE IF b1.failure_count >= failure_threshold
        THEN _trip(b1)
        ELSE b1

\* allow_request probing as soon as any time has passed, whatever the timeout
allow_request_no_timeout(b, t) ==
    IF b.state = CLOSED
    THEN [breaker |-> b, allowed |-> TRUE]
    ELSE IF b.state = OPEN
    THEN IF t - b.last_failure_time >= 0
         THEN [breaker |-> [b EXCEPT !.state = HALF_OPEN, !.success_count = 0],
               allowed |-> TRUE]
         ELSE [breaker |-> b, allowed |-> FALSE]
    ELSE [breaker |-> b, allowed |-> TRUE]

\* allow_request entering HALF_OPEN without zeroing success_count
allow_request_stale_count(b, t) ==
    IF b.state = CLOSED
    THEN [breaker |-> b, allowed |-> TRUE]
    ELSE IF b.state = OPEN
    THEN IF t - b.last_failure_time >= timeout
         THEN [breaker |-> [b EXCEPT !.state = HALF_OPEN], allowed |-> TRUE]
         ELSE [breaker |-> b, allowed |-> FALSE]
    ELSE [breaker |-> b, allowed |-> TRUE]

\* allow_request that never lets a probe through
allow_request_never_probes(b, t) ==
    IF b.state = CLOSED
    THEN [breaker |-> b, allowed |-> TRUE]
    ELSE IF b.state = OPEN
    THEN [breaker |-> b, allowed |-> FALSE]
    ELSE [breaker |-> b, allowed |-> TRUE]

\* the breaker after the check, and whether the request may pass
allow_request(b, t) ==
    IF b.state = CLOSED
    THEN [breaker |-> b, allowed |-> TRUE]
    ELSE IF b.state = OPEN
    THEN IF t - b.last_failure_time >= timeout
         THEN [breaker |-> [b EXCEPT !.state = HALF_OPEN, !.success_count = 0],
               allowed |-> TRUE]
         ELSE [breaker |-> b, allowed |-> FALSE]
    ELSE [breaker |-> b, allowed |-> TRUE]

\* the breaker map with the breaker of service_id created when missing
_get_breaker(bs, service_id) ==
    IF service_id \in DOMAIN bs
    THEN bs
    ELSE [s \in DOMAIN bs \cup {service_id} |->
            IF s = service_id THEN CircuitBreaker ELSE bs[s]]

\* int(self.timeout): whole seconds, the fraction dropped
IntSeconds(ticks) == ticks \div TicksPerSec

_create_circuit_open_response(state) ==
    Resp(503, <<IntSeconds(timeout)>>, state, "")

\* CircuitBreakerPlugin.before_request on the breaker map
CircuitBreaker_before_request(bs, service_id, t) ==
    LET bs1 == _get_breaker(bs, service_id)
        chk == allow_request(bs1[service_id], t)
        bs2 == [bs1 EXCEPT ![service_id] = chk.breaker]
    IN  [breakers |-> bs2,
         pre |-> bs1[service_id],
         circuit_rejected |-> ~chk.allowed,
         short_circuit_response |->
            IF chk.allowed THEN NoResponse
            ELSE _create_circuit_open_response(chk.breaker.state)]

\* after_response counting every error status, 4xx included, as a failure
CircuitBreaker_after_response_4xx(bs, service_id, response, t) ==
    LET bs1 == _get_breaker(bs, service_id)
        r == IF response.status >= 400
             THEN [breaker |-> record_failure(bs1[service_id], t), op |-> "failure"]
             ELSE [breaker |-> record_success(bs1[service_id]), op |-> "success"]
    IN  [breakers |-> [bs1 EXCEPT ![service_id] = r.breaker],
         pre |-> bs1[service_id],
         op |-> r.op,
         response |-> [response EXCEPT !.x_circuit_state = r.breaker.state]]

\* after_response that records the outcome and leaves the headers alone
CircuitBreaker_after_response_no_header(bs, service_id, response, t) ==
    LET bs1 == _get_breaker(bs, service_id)
        r == IF response.status >= 500
             THEN [breaker |-> record_failure(bs1[service_id], t), op |-> "failure"]
             ELSE [breaker |-> record_success(bs1[service_id]), op |-> "success"]
    IN  [breakers |-> [bs1 EXCEPT ![service_id] = r.breaker],
         pre |-> bs1[service_id],
         op |-> r.op,
         response |-> response]

\* CircuitBreakerPlugin.after_response: the breaker map and the response with its header
CircuitBreaker_after_response(bs, service_id, response, t) ==
    LET bs1 == _get_breaker(bs, service_id)
        r == IF response.status >= 500
             THEN [breaker |-> record_failure(bs1[service_id], t), op |-> "failure"]
             ELSE [breaker |-> record_success(bs1[service_id]), op |-> "success"]
    IN  [breakers |-> [bs1 EXCEPT ![service_id] = r.breaker],
         pre |-> bs1[service_id],
         op |-> r.op,
         response |-> [response EXCEPT !.x_circuit_state = r.breaker.state]]

\* CircuitBreakerPlugin.on_error
CircuitBreaker_on_error(bs, service_id, t) ==
    LET bs1 == _get_breaker(bs, service_id)
    IN  [breakers |-> [bs1 EXCEPT ![service_id] = record_failure(bs1[service_id], t)],
         pre |-> bs1[service_id]]

\* ------------------------------------------------------------- rate limiter
Min(a, b) == IF a <= b THEN a ELSE b

\* rate * burst_multiplier, in token units
Capacity(rate) == rate * settings.rate_limit_burst_multiplier * TicksPerSec

\* elapsed * refill_rate, in token units
Refill(elapsed, rate) == elapsed * rate * BurstDen

\* a bucket as the plugin creates it: full, stamped with the current time
TokenBucket(rate, t) ==
    [capacity |-> Capacity(rate), tokens |-> Capacity(rate),
     refill_rate |-> rate, last_refill |-> t]

\* try_acquire refilling without the cap at capacity
try_acquire_uncapped(bucket, t) ==
    LET elapsed == t - bucket.last_refill
        b1 == [bucket EXCEPT
                 !.tokens = @ + Refill(elapsed, bucket.refill_rate),
                 !.last_refill = t]
    IN  IF b1.tokens >= TokenScale
        THEN [bucket |-> [b1 EXCEPT !.tokens = @ - TokenScale], ok |-> TRUE]
        ELSE [bucket |-> b1, ok |-> FALSE]

\* try_acquire taking the token before it tests whether there was one
try_acquire_eager(bucket, t) ==
    LET elapsed == t - bucket.last_refill
        b1 == [bucket EXCEPT
                 !.tokens = Min(bucket.capacity, @ + Refill(elapsed, bucket.refill_rate)),
                 !.last_refill = t]
    IN  [bucket |-> [b1 EXCEPT !.tokens = @ - TokenScale], ok |-> b1.tokens >= TokenScale]

\* the bucket after the attempt to take one token, and whether it was granted
try_acquire(bucket, t) ==
    LET elapsed == t - bucket.last_refill
        b1 == [bucket EXCEPT
                 !.tokens = Min(bucket.capacity, @ + Refill(elapsed, bucket.refill_rate)),
                 !.last_refill = t]
    IN  IF b1.tokens >= TokenScale
        THEN [bucket |-> [b1 EXCEPT !.tokens = @ - TokenScale], ok |-> TRUE]
        ELSE [bucket |-> b1, ok |-> FALSE]

\* a bucket map with the bucket of key created when missing
GetOrCreate(buckets, key, rate, t) ==
    IF key \in DOMAIN buckets
    THEN buckets
    ELSE [k \in DOMAIN buckets \cup {key} |->
            IF k = key THEN TokenBucket(rate, t) ELSE buckets[k]]

_get_route_bucket(buckets, route_key, t) ==
    GetOrCreate(buckets, route_key, settings.rate_limit_per_route_qps, t)

_get_ip_bucket(buckets, client_ip, t) ==
    GetOrCreate(buckets, client_ip, settings.rate_limit_per_ip_qps, t)

_create_rate_limit_response(limit_type) ==
    Resp(429, <<1>>, "", limit_type)

\* history record of one acquisition attempt
Try(dim, key, fresh, pre, res) ==
    [dim |-> dim, key |-> key, fresh |-> fresh, pre |-> pre,
     post |-> res.bucket, ok |-> res.ok]

\* before_request without the return after a failed acquisition: every dimension
\* is tried and the last failing one answers
RateLimit_before_request_no_return(g, rb, ib, route_key, client_ip, t) ==
    LET gres == try_acquire(g, t)
        gtry == Try("global", "", FALSE, g, gres)
        rb1 == _get_route_bucket(rb, route_key, t)
        rres == try_acquire(rb1[route_key], t)
        rtry == Try("route", route_key, route_key \notin DOMAIN rb, rb1[route_key], rres)
        rb2 == [rb1 EXCEPT ![route_key] = rres.bucket]
        ib1 == _get_ip_bucket(ib, client_ip, t)
        ires == try_acquire(ib1[client_ip], t)
        itry == Try("ip", client_ip, client_ip \notin DOMAIN ib, ib1[client_ip], ires)
        ib2 == [ib1 EXCEPT ![client_ip] = ires.bucket]
    IN  [global_bucket |-> gres.bucket, route_buckets |-> rb2, ip_buckets |-> ib2,
         tries |-> <<gtry, rtry, itry>>,
         short_circuit_response |->
            IF ~ires.ok THEN _create_rate_limit_response("ip")
            ELSE IF ~rres.ok THEN _create_rate_limit_response("route")
            ELSE IF ~gres.ok THEN _create_rate_limit_response("global")
            ELSE NoResponse]

\* RateLimitPlugin.before_request on the three bucket stores
\* before_request giving back the tokens of the earlier dimensions when a
\* later one rejects
RateLimit_before_request_refund(g, rb, ib, route_key, client_ip, t) ==
    LET gres == try_acquire(g, t)
        gtry == Try("global", "", FALSE, g, gres)
        rb1 == _get_route_bucket(rb, route_key, t)
        rres == try_acquire(rb1[route_key], t)
        rtry == Try("route", route_key, route_key \notin DOMAIN rb, rb1[route_key], rres)
        rb2 == [rb1 EXCEPT ![route_key] = rres.bucket]
        ib1 == _get_ip_bucket(ib, client_ip, t)
        ires == try_acquire(ib1[client_ip], t)
        itry == Try("ip", client_ip, client_ip \notin DOMAIN ib, ib1[client_ip], ires)
        ib2 == [ib1 EXCEPT ![client_ip] = ires.bucket]
        refunded(b) == [b EXCEPT !.tokens = @ + TokenScale]
    IN  IF ~gres.ok
        THEN [global_bucket |-> gres.bucket, route_buckets |-> rb, ip_buckets |-> ib,
              tries |-> <<gtry>>,
              short_circuit_response |-> _create_rate_limit_response("global")]
        ELSE IF ~rres.ok
        THEN [global_bucket |-> refunded(gres.bucket), route_buckets |-> rb2,
              ip_buckets |-> ib,
              tries |-> <<gtry, rtry>>,
              short_circuit_response |-> _create_rate_limit_response("route")]
        ELSE IF ~ires.ok
        THEN [global_bucket |-> refunded(gres.bucket),
              route_buckets |-> [rb2 EXCEPT ![route_key] = refunded(@)],
              ip_buckets |-> ib2,
              tries |-> <<gtry, rtry, itry>>,
              short_circuit_response |-> _create_rate_limit_response("ip")]
        ELSE [global_bucket |-> gres.bucket, route_buckets |-> rb2, ip_buckets |-> ib2,
              tries |-> <<gtry, rtry, itry>>,
              short_circuit_response |-> NoResponse]

RateLimit_before_request(g, rb, ib, route_key, client_ip, t) ==
    LET gres == try_acquire(g, t)
        gtry == Try("global", "", FALSE, g, gres)
        rb1 == _get_route_bucket(rb, route_key, t)
        rres == try_acquire(rb1[route_key], t)
        rtry == Try("route", route_key, route_key \notin DOMAIN rb, rb1[route_key], rres)
        rb2 == [rb1 EXCEPT ![route_key] = rres.bucket]
        ib1 == _get_ip_bucket(ib, client_ip, t)
        ires == try_acquire(ib1[client_ip], t)
        itry == Try("ip", client_ip, client_ip \notin DOMAIN ib, ib1[client_ip], ires)
        ib2 == [ib1 EXCEPT ![client_ip] = ires.bucket]
    IN  IF ~gres.ok
        THEN [global_bucket |-> gres.bucket, route_buckets |-> rb, ip_buckets |-> ib,
              tries |-> <<gtry>>,
              short_circuit_response |-> _create_rate_limit_response("global")]
        ELSE IF ~rres.ok
        THEN [global_bucket |-> gres.bucket, route_buckets |-> rb2, ip_buckets |-> ib,
              tries |-> <<gtry, rtry>>,
              short_circuit_response |-> _create_rate_limit_response("route")]
        ELSE IF ~ires.ok
        THEN [global_bucket |-> gres.bucket, route_buckets |-> rb2, ip_buckets |-> ib2,
              tries |-> <<gtry, rtry, itry>>,
              short_circuit_response |-> _create_rate_limit_response("ip")]
        ELSE [global_bucket |-> gres.bucket, route_buckets |-> rb2, ip_buckets |-> ib2,
              tries |-> <<gtry, rtry, itry>>,
              short_circuit_response |-> NoResponse]

\* ------------------------------------------------------------- plugin chain
\* AuthenticationPlugin.before_request, by its outcome for the request
Authentication_before_request(auth) ==
    IF auth = "deny" THEN Resp(401, NoHeader, "", "") ELSE NoResponse

NoBreakerOp == [op |-> "none", pre |-> CircuitBreaker]

\* execute_before running the breaker's hook after an earlier plugin has
\* short-circuited the request
execute_before_no_break(route, client_ip, auth, t) ==
    LET service_id == target_service_id(route)
        a == Authentication_before_request(auth)
        rl_runs == a = NoResponse /\ settings.rate_limit_enabled
        rl == RateLimit_before_request(global_bucket, route_buckets, ip_buckets,
                                       route, client_ip, t)
        rl_short == IF rl_runs THEN rl.short_circuit_response ELSE NoResponse
        cb_runs == settings.circuit_breaker_enabled
        cb == CircuitBreaker_before_request(breakers, service_id, t)
    IN  [short_circuit_response |->
            IF a # NoResponse THEN a
            ELSE IF rl_short # NoResponse THEN rl_short
            ELSE IF cb_runs THEN cb.short_circuit_response
            ELSE NoResponse,
         global_bucket |-> IF rl_runs THEN rl.global_bucket ELSE global_bucket,
         route_buckets |-> IF rl_runs THEN rl.route_buckets ELSE route_buckets,
         ip_buckets |-> IF rl_runs THEN rl.ip_buckets ELSE ip_buckets,
         tries |-> IF rl_runs THEN rl.tries ELSE <<>>,
         breakers |-> IF cb_runs THEN cb.breakers ELSE breakers,
         cb |-> IF cb_runs THEN [op |-> "allow", pre |-> cb.pre] ELSE NoBreakerOp]

\* PluginChain.execute_before over the registered plugins, in priority order:
\* authentication (50), rate limit (100), circuit breaker (200), header transform (300)
execute_before(route, client_ip, auth, t) ==
    LET service_id == target_service_id(route)
        a == Authentication_before_request(auth)
        rl_runs == a = NoResponse /\ settings.rate_limit_enabled
        rl == RateLimit_before_request(global_bucket, route_buckets, ip_buckets,
                                       route, client_ip, t)
        rl_short == IF rl_runs THEN rl.short_circuit_response ELSE NoResponse
        cb_runs == a = NoResponse /\ rl_short = NoResponse
                       /\ settings.circuit_breaker_enabled
        cb == CircuitBreaker_before_request(breakers, service_id, t)
    IN  [short_circuit_response |->
            IF a # NoResponse THEN a
            ELSE IF rl_short # NoResponse THEN rl_short
            ELSE IF cb_runs THEN cb.short_circuit_response
            ELSE NoResponse,
         global_bucket |-> IF rl_runs THEN rl.global_bucket ELSE global_bucket,
         route_buckets |-> IF rl_runs THEN rl.route_buckets ELSE route_buckets,
         ip_buckets |-> IF rl_runs THEN rl.ip_buckets ELSE ip_buckets,
         tries |-> IF rl_runs THEN rl.tries ELSE <<>>,
         breakers |-> IF cb_runs THEN cb.breakers ELSE breakers,
         cb |-> IF cb_runs THEN [op |-> "allow", pre |-> cb.pre] ELSE NoBreakerOp]

\* PluginChain.execute_after, in reverse order; only the circuit breaker overrides it
execute_after(service_id, response, t) ==
    IF settings.circuit_breaker_enabled
    THEN LET r == CircuitBreaker_after_response(breakers, service_id, response, t)
         IN  [breakers |-> r.breakers, response |-> r.response,
              cb |-> [op |-> r.op, pre |-> r.pre]]
    ELSE [breakers |-> breakers, response |-> response, cb |-> NoBreakerOp]

\* PluginChain.handle_error; no plugin returns a response, the handler answers 502
handle_error(service_id, t) ==
    IF settings.circuit_breaker_enabled
    THEN LET r == CircuitBreaker_on_error(breakers, service_id, t)
         IN  [breakers |-> r.breakers, cb |-> [op |-> "failure", pre |-> r.pre]]
    ELSE [breakers |-> breakers, cb |-> NoBreakerOp]

\* ------------------------------------------------------------- balancer, tracker, forwarder
None == <<>>

\* LoadBalancer.select on the one-element list [route.target_service]
select(instance) ==
    IF healthy[instance[1]] THEN instance ELSE None

Max(a, b) == IF a >= b THEN a ELSE b

acquire(ac, instance) ==
    [ac EXCEPT ![instance] = @ + 1]

\* release that computes the new count and does not store it
release_lost(ac, instance) ==
    ac

\* release looking the instance up in the current route table instead of
\* using the object the request acquired
release_current(ac, instance) ==
    [ac EXCEPT ![<<instance[1], generation>>] = Max(0, @ - 1)]

release(ac, instance) ==
    [ac EXCEPT ![instance] = Max(0, @ - 1)]

\* the status proxy_request returns for an upstream outcome that is not an exception
proxy_request(out) ==
    IF out.kind = "response" THEN out.status
    ELSE IF out.kind = "timeout" THEN 504
    ELSE 502

\* ------------------------------------------------------------- history
Step(kind, service_id, response, forwarded, cb, tries, out_kind) ==
    [kind |-> kind, svc |-> service_id, response |-> response,
     forwarded |-> forwarded, cb_op |-> cb.op, cb_pre |-> cb.pre, tries |-> tries,
     out_kind |-> out_kind]

Quiet(kind) == Step(kind, "", NoResponse, FALSE, NoBreakerOp, <<>>, "")

StreakAfter(st, cb) ==
    IF cb.op = "success" THEN 0
    ELSE IF cb.op = "failure"
    THEN IF cb.pre.state = CLOSED /\ cb.pre.failure_count = 0 THEN 1
         ELSE IF st > 0 /\ st < failure_threshold THEN st + 1
         ELSE 0
    ELSE st

\* the buckets, by dimension and key
BucketIds ==
    {<<"global", "">>} \cup ({"route"} \X Routes) \cup ({"ip"} \X IPs)

\* how many of the attempts in tries were granted by bucket k
Grants(tries, k) ==
    Cardinality({i \in 1..Len(tries) : tries[i].ok /\ <<tries[i].dim, tries[i].key>> = k})

InFlight == LET n[S \in SUBSET Instances] ==
                    IF S = {} THEN 0
                    ELSE LET i == CHOOSE x \in S : TRUE
                         IN  in_flight[i] + n[S \ {i}]
            IN  n[Instances]

\* ------------------------------------------------------------- actions
\* gateway_proxy_handler from its entry to the upstream call (or to its early return)
StartRequest(route, client_ip, auth) ==
    /\ InFlight < NumRequests
    /\ LET service_id == target_service_id(route)
           b == execute_before(route, client_ip, auth, now)
           short == b.short_circuit_response
           instance == select(<<service_id, generation>>)
           forward == short = NoResponse /\ instance # None
       IN  /\ global_bucket' = b.global_bucket
           /\ route_buckets' = b.route_buckets
           /\ ip_buckets' = b.ip_buckets
           /\ breakers' = b.breakers
           /\ active_connections' =
                IF forward THEN acquire(active_connections, instance)
                ELSE active_connections
           /\ in_flight' = IF forward THEN [in_flight EXCEPT ![instance] = @ + 1]
                           ELSE in_flight
           /\ granted' = [k \in BucketIds |->
                            [granted[k] EXCEPT ![now] = @ + Grants(b.tries, k)]]
           /\ last' = Step("start", service_id,
                           IF short # NoResponse THEN short
                           ELSE IF instance = None THEN HTTPException(503)
                           ELSE NoResponse,
                           forward, b.cb, b.tries, "")
    /\ UNCHANGED <<now, settings, generation, healthy, streak, failed_at>>
    /\ UNCHANGED componentVars

\* gateway_proxy_handler from the end of the upstream call to its return
UpstreamResult(instance, out) ==
    /\ in_flight[instance] > 0
    /\ LET service_id == instance[1]
           raised == out.kind = "exception"
           a == execute_after(service_id, Resp(proxy_request(out), NoHeader, "", ""), now)
           e == handle_error(service_id, now)
           cb == IF raised THEN e.cb ELSE a.cb
       IN  /\ breakers' = IF raised THEN e.breakers ELSE a.breakers
           /\ active_connections' = release(active_connections, instance)
           /\ streak' = [streak EXCEPT ![service_id] = StreakAfter(@, cb)]
           /\ failed_at' = IF cb.op = "failure"
                           THEN [failed_at EXCEPT ![service_id] = now]
                           ELSE failed_at
           /\ last' = Step("result", service_id,
                           IF raised THEN HTTPException(502) ELSE a.response,
                           FALSE, cb, <<>>, out.kind)
    /\ in_flight' = [in_flight EXCEPT ![instance] = @ - 1]
    /\ UNCHANGED <<now, settings, global_bucket, route_buckets, ip_buckets,
                   generation, healthy, granted>>
    /\ UNCHANGED componentVars

\* time passes
Tick ==
    /\ now < EndTime
    /\ now' = now + 1
    /\ last' = Quiet("tick")
    /\ UNCHANGED <<settings, breakers, global_bucket, route_buckets, ip_buckets,
                   generation, healthy, active_connections, in_flight, streak, granted,
                   failed_at>>
    /\ UNCHANGED componentVars

\* RouteCache.refresh, successful: every route gets a new ServiceInstance object
Refresh(h) ==
    /\ generation < MaxRefresh
    /\ generation' = generation + 1
    /\ healthy' = h
    /\ last' = Quiet("refresh")
    /\ UNCHANGED <<now, settings, breakers, global_bucket, route_buckets, ip_buckets,
                   active_connections, in_flight, streak, granted, failed_at>>
    /\ UNCHANGED componentVars

\* the upstream recovers: from HealTime on every forwarded request succeeds
HealTime == EndTime - MaxTimeout + 1
Healed == now >= HealTime
Failing(out) == out.kind = "exception" \/ proxy_request(out) >= 500

\* UpstreamResult with an upstream that fails before HealTime only
UpstreamAnswers(instance, out) ==
    /\ Failing(out) => ~Healed
    /\ UpstreamResult(instance, out)

Next ==
    \/ \E route \in Routes, ip \in IPs, auth \in AuthOutcomes :
          StartRequest(route, ip, auth)
    \/ \E instance \in Instances, out \in Outcomes : UpstreamResult(instance, out)
    \/ Tick
    \/ \E h \in [Services -> BOOLEAN] : Refresh(h)

\* ------------------------------------------------------------- plugin chain as a list
Plugins == {"authentication", "rate_limit", "circuit_breaker", "header_transform"}

priority(p) ==
    IF p = "authentication" THEN 50
    ELSE IF p = "rate_limit" THEN 100
    ELSE IF p = "circuit_breaker" THEN 200
    ELSE 300

\* GatewayPlugin.enabled, as each plugin's __init__ sets it
enabled(p) ==
    IF p = "authentication" THEN settings.auth_plugin_enabled
    ELSE IF p = "rate_limit" THEN settings.rate_limit_enabled
    ELSE IF p = "circuit_breaker" THEN settings.circuit_breaker_enabled
    ELSE TRUE

\* list.sort(key=priority): stable, ascending
RECURSIVE sort_by_priority(_)
sort_by_priority(plugins) ==
    IF plugins = <<>> THEN <<>>
    ELSE LET n == Len(plugins)
             p == plugins[n]
             sorted == sort_by_priority(SubSeq(plugins, 1, n - 1))
             k == Cardinality({i \in 1..(n - 1) : priority(sorted[i]) <= priority(p)})
         IN  SubSeq(sorted, 1, k) \o <<p>> \o SubSeq(sorted, k + 1, n - 1)

register(plugins, p) ==
    sort_by_priority(Append(plugins, p))

unregister(plugins, plugin_name) ==
    SelectSeq(plugins, LAMBDA p : p # plugin_name)

create_default_plugin_chain ==
    LET c0 == <<>>
        c1 == IF settings.auth_plugin_enabled THEN register(c0, "authentication") ELSE c0
        c2 == IF settings.rate_limit_enabled THEN register(c1, "rate_limit") ELSE c1
        c3 == IF settings.circuit_breaker_enabled THEN register(c2, "circuit_breaker") ELSE c2
    IN  register(c3, "header_transform")

RECURSIVE Reverse(_)
Reverse(seq) ==
    IF seq = <<>> THEN <<>> ELSE Append(Reverse(Tail(seq)), Head(seq))

\* execute_before without the break after a short-circuit response
RECURSIVE execute_before_hooks_no_break(_, _)
execute_before_hooks_no_break(plugins, shorts) ==
    IF plugins = <<>> THEN [ran |-> <<>>, short |-> ""]
    ELSE LET p == Head(plugins)
             rest == execute_before_hooks_no_break(Tail(plugins), shorts)
         IN  IF ~enabled(p) THEN rest
             ELSE [ran |-> <<p>> \o rest.ran,
                   short |-> IF rest.short # "" THEN rest.short
                             ELSE IF p \in shorts THEN p ELSE ""]

\* PluginChain.execute_before as the hooks it runs: the plugins whose
\* before_request ran, in order, and the one that set short_circuit_response;
\* shorts are the plugins that would short-circuit this request
RECURSIVE execute_before_hooks(_, _)
execute_before_hooks(plugins, shorts) ==
    IF plugins = <<>> THEN [ran |-> <<>>, short |-> ""]
    ELSE LET p == Head(plugins)
             rest == execute_before_hooks(Tail(plugins), shorts)
         IN  IF ~enabled(p) THEN rest
             ELSE IF p \in shorts THEN [ran |-> <<p>>, short |-> p]
             ELSE [ran |-> <<p>> \o rest.ran, short |-> rest.short]

\* PluginChain.execute_after as the plugins whose after_response ran, in order
execute_after_hooks(plugins) ==
    SelectSeq(Reverse(plugins), enabled)

NoHooks == [shorts |-> {}, before |-> <<>>, short |-> "", after |-> <<>>]

\* PluginChain.register of a plugin that is not in the chain
Register(p) ==
    /\ \A i \in 1..Len(_plugins) : _plugins[i] # p
    /\ _plugins' = register(_plugins, p)
    /\ hooks' = NoHooks
    /\ UNCHANGED <<gatewayVars, cacheVars, proxyVars, balancerVars, authVars, metricsVars, matcherVars, lockVars, janitorVars>>

Unregister(p) ==
    /\ \E i \in 1..Len(_plugins) : _plugins[i] = p
    /\ _plugins' = unregister(_plugins, p)
    /\ hooks' = NoHooks
    /\ UNCHANGED <<gatewayVars, cacheVars, proxyVars, balancerVars, authVars, metricsVars, matcherVars, lockVars, janitorVars>>

\* the hooks of one request: execute_before, and execute_after when nothing
\* short-circuited it
RunHooks(shorts) ==
    /\ LET b == execute_before_hooks(_plugins, shorts)
       IN  hooks' = [shorts |-> shorts, before |-> b.ran, short |-> b.short,
                     after |-> IF b.short = "" THEN execute_after_hooks(_plugins)
                               ELSE <<>>]
    /\ UNCHANGED <<gatewayVars, _plugins, cacheVars, proxyVars, balancerVars, authVars, metricsVars, matcherVars, lockVars, janitorVars>>

NextChain ==
    \/ \E p \in Plugins : Register(p)
    \/ \E p \in Plugins : Unregister(p)
    \/ \E shorts \in SUBSET (Plugins \ {"header_transform"}) : RunHooks(shorts)

\* ------------------------------------------------------------- route matcher
\* A path is a sequence of characters; a pattern is a sequence of tokens: the
\* characters and the wildcards "*", "**" and "{id}" (one path parameter).
Slash == "/"

\* the paths the regular expression [^/]* matches: no slash in them
NoSlash(path) == \A i \in 1..Len(path) : path[i] # Slash

\* re.match("^...$") of the pattern after its translation to a regular
\* expression: "**" became ".*", "*" became "[^/]*", "{id}" became "[^/]+"
\* when params holds, every other token stands for itself
RECURSIVE regex_match(_, _, _)
regex_match(pattern, path, params) ==
    IF pattern = <<>> THEN path = <<>>
    ELSE LET tok == Head(pattern)
             rest == Tail(pattern)
             n == Len(path)
         IN  IF tok = "**"
             THEN \E k \in 0..n : regex_match(rest, SubSeq(path, k + 1, n), params)
             ELSE IF tok = "*"
             THEN \E k \in 0..n : /\ NoSlash(SubSeq(path, 1, k))
                                   /\ regex_match(rest, SubSeq(path, k + 1, n), params)
             ELSE IF tok = "{id}" /\ params
             THEN \E k \in 1..n : /\ NoSlash(SubSeq(path, 1, k))
                                   /\ regex_match(rest, SubSeq(path, k + 1, n), params)
             ELSE IF tok = "{id}"
             THEN FALSE
             ELSE path # <<>> /\ Head(path) = tok /\ regex_match(rest, Tail(path), params)

\* fnmatch.fnmatch(path, pattern): "*" matches any characters, "/" included
RECURSIVE fnmatch(_, _)
fnmatch(path, pattern) ==
    IF pattern = <<>> THEN path = <<>>
    ELSE LET tok == Head(pattern)
             rest == Tail(pattern)
             n == Len(path)
         IN  IF tok = "*" \/ tok = "**"
             THEN \E k \in 0..n : fnmatch(SubSeq(path, k + 1, n), rest)
             ELSE IF tok = "{id}"
             THEN FALSE
             ELSE path # <<>> /\ Head(path) = tok /\ fnmatch(Tail(path), rest)

Contains(pattern, tok) == \E i \in 1..Len(pattern) : pattern[i] = tok

match_path(pattern, path) ==
    IF Contains(pattern, "**") THEN regex_match(pattern, path, FALSE)
    ELSE IF Contains(pattern, "*") THEN fnmatch(path, pattern)
    ELSE IF Contains(pattern, "{id}") THEN regex_match(pattern, path, TRUE)
    ELSE pattern = path

\* the patterns and paths match_path is applied to: up to MaxSegments segments,
\* each behind a slash; a path may end in a slash
MaxSegments == 3

PatternSegments == {"a", "b", "*", "**", "{id}"}
PathSegments == {"a", "b"}

RECURSIVE Join(_)
Join(segments) ==
    IF segments = <<>> THEN <<>>
    ELSE <<Slash, Head(segments)>> \o Join(Tail(segments))

PathPatterns ==
    {Join(s) : s \in UNION {[1..k -> PatternSegments] : k \in 1..MaxSegments}}

Paths ==
    {Join(s) \o t : s \in UNION {[1..k -> PathSegments] : k \in 1..MaxSegments},
                    t \in {<<>>, <<Slash>>}}

NoPathMatch == [op |-> "none", pattern |-> <<>>, path |-> <<>>, result |-> FALSE]

\* a call of RouteMatcher.match_path
MatchPath(pattern, path) ==
    /\ path_match.op = "none"
    /\ path_match' = [op |-> "match_path", pattern |-> pattern, path |-> path,
                      result |-> match_path(pattern, path)]
    /\ UNCHANGED <<gatewayVars, chainVars, cacheVars, proxyVars, balancerVars, authVars,
                   metricsVars, lockVars, janitorVars>>

\* the caller is done with the result
MatchPathDone ==
    /\ path_match.op # "none"
    /\ path_match' = NoPathMatch
    /\ UNCHANGED <<gatewayVars, chainVars, cacheVars, proxyVars, balancerVars, authVars,
                   metricsVars, lockVars, janitorVars>>

NextMatcher ==
    \/ \E pattern \in PathPatterns, path \in Paths : MatchPath(pattern, path)
    \/ MatchPathDone

\* str.upper() on the method names in use
upper(m) ==
    IF m = "get" THEN "GET" ELSE IF m = "post" THEN "POST" ELSE m

\* allowed_methods is the list its split(",") gives, stripped; "*" is <<"*">>
match_method(allowed_methods, method) ==
    IF allowed_methods = <<"*">> THEN TRUE
    ELSE \E i \in 1..Len(allowed_methods) : upper(allowed_methods[i]) = upper(method)

\* match that does not skip the routes that are not enabled
RECURSIVE match_disabled_too(_, _, _)
match_disabled_too(routes, method, path) ==
    IF routes = <<>> THEN None
    ELSE LET route == Head(routes)
         IN  IF ~match_path(route.path_pattern, path)
             THEN match_disabled_too(Tail(routes), method, path)
             ELSE IF route.methods # <<>> /\ ~match_method(route.methods, method)
             THEN match_disabled_too(Tail(routes), method, path)
             ELSE route

\* RouteMatcher.match: the first route that fits, None when there is none
RECURSIVE match(_, _, _)
match(routes, method, path) ==
    IF routes = <<>> THEN None
    ELSE LET route == Head(routes)
         IN  IF ~route.enabled
             THEN match(Tail(routes), method, path)
             ELSE IF ~match_path(route.path_pattern, path)
             THEN match(Tail(routes), method, path)
             ELSE IF route.methods # <<>> /\ ~match_method(route.methods, method)
             THEN match(Tail(routes), method, path)
             ELSE route

\* ------------------------------------------------------------- route cache
MaxRemoteRoutes == 2

\* RouteInfo, the fields the cache and the matcher use
RouteInfo(id, path_pattern, methods, route_priority, route_enabled, is_local) ==
    [id |-> id, path_pattern |-> path_pattern, methods |-> methods,
     priority |-> route_priority, enabled |-> route_enabled, is_local |-> is_local]

\* entries of a registry payload; an entry without "id" or "path_pattern" is malformed
RemoteEntries ==
    {[id |-> 1, path_pattern |-> <<"/", "x">>, methods |-> <<"*">>,
      priority |-> 50, enabled |-> TRUE, well_formed |-> TRUE],
     [id |-> 2, path_pattern |-> <<"/", "x">>, methods |-> <<"get">>,
      priority |-> 1000, enabled |-> TRUE, well_formed |-> TRUE],
     [id |-> 3, path_pattern |-> <<"/", "**">>, methods |-> <<"*">>,
      priority |-> 1000, enabled |-> FALSE, well_formed |-> TRUE],
     [id |-> 0, path_pattern |-> <<>>, methods |-> <<"*">>,
      priority |-> 0, enabled |-> TRUE, well_formed |-> FALSE]}

\* entries of routes.yaml, with their configured priority; an entry without
\* "path_pattern" is malformed
LocalX ==
    [path_pattern |-> <<"/", "x">>, methods |-> <<"*">>,
     priority |-> 0, enabled |-> TRUE, well_formed |-> TRUE]
LocalY ==
    [path_pattern |-> <<"/", "y">>, methods |-> <<"POST">>,
     priority |-> 5, enabled |-> TRUE, well_formed |-> TRUE]
LocalMalformed ==
    [path_pattern |-> <<>>, methods |-> <<"*">>,
     priority |-> 0, enabled |-> TRUE, well_formed |-> FALSE]

\* the "routes" lists of the routes.yaml files
LocalConfigs ==
    {<<>>, <<LocalX>>, <<LocalY>>, <<LocalMalformed, LocalX>>, <<LocalX, LocalY>>}

SeqsUpTo(S, n) == UNION {[1..k -> S] : k \in 0..n}

RequestMethods == {"GET", "POST"}
RequestPaths == {<<"/", "x">>, <<"/", "y">>, <<"/", "z">>}

\* RouteInfo.from_dict on a well-formed entry
from_dict(data) ==
    RouteInfo(data.id, data.path_pattern, data.methods, data.priority, data.enabled, FALSE)

\* RouteInfo.from_local_config on a well-formed entry whose priority is boosted
from_local_config(data, route_id) ==
    RouteInfo(route_id, data.path_pattern, data.methods, data.priority, data.enabled, TRUE)

\* the routes _load_local_routes builds from the entries of the file: ids
\* -(i + 1), priority raised by the boost, entries that fail to parse left out
RECURSIVE LocalRoutesFrom(_, _)
LocalRoutesFrom(config, i) ==
    IF i > Len(config) THEN <<>>
    ELSE LET route_data == [config[i] EXCEPT
                              !.priority = @ + settings.local_routes_priority_boost]
         IN  (IF route_data.well_formed
              THEN <<from_local_config(route_data, 0 - i)>>
              ELSE <<>>) \o LocalRoutesFrom(config, i + 1)

\* sorted(all_routes, key=priority) without reverse=True
RECURSIVE sorted_ascending(_)
sorted_ascending(routes) ==
    IF routes = <<>> THEN <<>>
    ELSE LET n == Len(routes)
             r == routes[n]
             sorted == sorted_ascending(SubSeq(routes, 1, n - 1))
             k == Cardinality({i \in 1..(n - 1) : sorted[i].priority <= r.priority})
         IN  SubSeq(sorted, 1, k) \o <<r>> \o SubSeq(sorted, k + 1, n - 1)

\* sorted(all_routes, key=priority, reverse=True): descending and stable
RECURSIVE sorted_by_priority_desc(_)
sorted_by_priority_desc(routes) ==
    IF routes = <<>> THEN <<>>
    ELSE LET n == Len(routes)
             r == routes[n]
             sorted == sorted_by_priority_desc(SubSeq(routes, 1, n - 1))
             k == Cardinality({i \in 1..(n - 1) : sorted[i].priority >= r.priority})
         IN  SubSeq(sorted, 1, k) \o <<r>> \o SubSeq(sorted, k + 1, n - 1)

\* RouteCache.get_routes
get_routes ==
    sorted_by_priority_desc(_remote_routes \o _local_routes)

\* what a refresh can meet: a response with its status and payload, or no response
RefreshOutcomes ==
    [kind : {"response"}, status : {200}, payload : SeqsUpTo(RemoteEntries, MaxRemoteRoutes)]
        \cup [kind : {"response"}, status : {403, 500}, payload : {<<>>}]
        \cup [kind : {"timeout", "transport_error"}, status : {0}, payload : {<<>>}]

\* the refresh succeeds: status 200 and every entry of the payload parses
RefreshSucceeds(out) ==
    /\ out.kind = "response"
    /\ out.status = 200
    /\ \A i \in 1..Len(out.payload) : out.payload[i].well_formed

\* refresh that keeps the entries that parse when another entry does not
refresh_partial(out) ==
    IF out.kind = "response" /\ out.status = 200
    THEN [remote_routes |->
             LET ok == SelectSeq(out.payload, LAMBDA e : e.well_formed)
             IN  [i \in 1..Len(ok) |-> from_dict(ok[i])],
          registry_available |-> RefreshSucceeds(out)]
    ELSE [remote_routes |-> _remote_routes, registry_available |-> FALSE]

\* RouteCache.refresh: the remote routes and the availability flag after it
refresh(out) ==
    IF RefreshSucceeds(out)
    THEN [remote_routes |-> [i \in 1..Len(out.payload) |-> from_dict(out.payload[i])],
          registry_available |-> TRUE]
    ELSE [remote_routes |-> _remote_routes, registry_available |-> FALSE]

NoMatch ==
    [op |-> "", ok |-> FALSE, method |-> "", path |-> <<>>, routes |-> <<>>,
     route |-> None, response |-> NoResponse]

\* history of the cache: what its last operation was, with what it met
CacheOp(op, ok, input) == [NoMatch EXCEPT !.op = op, !.ok = ok, !.routes = <<input>>]

RouteCacheRefresh(out) ==
    /\ LET r == refresh(out)
       IN  /\ _remote_routes' = r.remote_routes
           /\ _registry_available' = r.registry_available
    /\ matched' = CacheOp("refresh", RefreshSucceeds(out), out)
    /\ UNCHANGED <<gatewayVars, chainVars, proxyVars, balancerVars, authVars, metricsVars, matcherVars, lockVars, janitorVars, _local_routes>>

\* what reload_local_routes finds: no file, a file that does not load, or entries
LocalFiles ==
    [kind : {"missing", "unreadable", "empty"}, routes : {<<>>}]
        \cup [kind : {"loaded"}, routes : LocalConfigs]

\* RouteCache.reload_local_routes
reload_local_routes(file) ==
    /\ _local_routes' = IF file.kind = "loaded"
                         THEN LocalRoutesFrom(file.routes, 1)
                         ELSE _local_routes
    /\ matched' = CacheOp("reload", file.kind = "loaded", file)
    /\ UNCHANGED <<gatewayVars, chainVars, proxyVars, balancerVars, authVars, metricsVars, matcherVars, lockVars, janitorVars, _remote_routes, _registry_available>>

\* gateway_proxy_handler looking up the route of a request
MatchRequest(method, path) ==
    /\ LET routes == get_routes
           route == match(routes, method, path)
       IN  matched' = [op |-> "match", ok |-> route # None,
                       method |-> method, path |-> path, routes |-> routes,
                       route |-> route,
                       response |-> IF route = None THEN HTTPException(404)
                                    ELSE NoResponse]
    /\ UNCHANGED <<gatewayVars, chainVars, proxyVars, balancerVars, authVars, metricsVars, matcherVars, lockVars, janitorVars, _remote_routes, _local_routes,
                   _registry_available>>

NextCache ==
    \/ \E out \in RefreshOutcomes : RouteCacheRefresh(out)
    \/ \E file \in LocalFiles : reload_local_routes(file)
    \/ \E method \in RequestMethods, path \in RequestPaths : MatchRequest(method, path)

\* ------------------------------------------------------------- forwarder
MaxRetries == 2

\* the response headers proxy_request removes
StrippedHeaders == {"content-encoding", "content-length", "transfer-encoding"}

\* bodies: the upstream's, and the two JSON bodies of the forwarder
BadGatewayBody == "Bad Gateway"
GatewayTimeoutBody == "Gateway Timeout"

\* what one client.request(...) can do: answer, time out (httpx.TimeoutException)
\* or fail otherwise in transport (any other httpx.RequestError)
UpstreamHeaders ==
    {{"content-type", "content-length"},
     {"content-type", "content-encoding", "transfer-encoding", "x-upstream"}}

AttemptOutcomes ==
    [kind : {"response"}, status : {200, 500, 502}, headers : UpstreamHeaders,
     body : {"B"}]
        \cup [kind : {"timeout", "transport_error"}, status : {0}, headers : {{}},
              body : {""}]

\* httpx.TimeoutException is a subclass of httpx.RequestError
IsRequestError(kind) == kind \in {"timeout", "transport_error"}
IsTimeoutException(kind) == kind = "timeout"

NoError == ""
NoUpstream == [kind |-> "", status |-> 0, headers |-> {}, body |-> ""]
NoClient == [status |-> 0, headers |-> {}, body |-> ""]

\* the locals of proxy_request before the loop
ProxyLocals(max_retries) ==
    [pc |-> "attempt", max_retries |-> max_retries, attempt |-> 0,
     last_error |-> NoError, status_code |-> 502, response_headers |-> {},
     response_body |-> "", upstream |-> NoUpstream, trace |-> <<>>,
     client |-> NoClient]

Idle == [ProxyLocals(0) EXCEPT !.pc = "idle"]

Event(ev, kind, delay) == [ev |-> ev, kind |-> kind, delay |-> delay]

\* the exception handlers around the loop: TimeoutException first, then RequestError
raised(p, e) ==
    IF IsTimeoutException(e)
    THEN [p EXCEPT !.pc = "done", !.status_code = 504,
                   !.response_body = GatewayTimeoutBody,
                   !.response_headers = {"content-type"}]
    ELSE [p EXCEPT !.pc = "done", !.status_code = 502,
                   !.response_body = BadGatewayBody,
                   !.response_headers = {"content-type"}]

\* after the loop: raise last_error when there is one and status_code is 502
after_loop(p) ==
    IF p.last_error # NoError /\ p.status_code = 502
    THEN raised(p, p.last_error)
    ELSE [p EXCEPT !.pc = "done"]

\* the loop body with the retry test off by one
attempt_result_one_fewer(p, out) ==
    LET q == [p EXCEPT !.trace = Append(@, Event("attempt", out.kind, 0))]
    IN  IF out.kind = "response"
        THEN after_loop([q EXCEPT !.status_code = out.status,
                                  !.response_headers = out.headers,
                                  !.response_body = out.body,
                                  !.upstream = out])
        ELSE IF IsRequestError(out.kind) /\ p.attempt < p.max_retries - 1
             THEN [q EXCEPT !.last_error = out.kind, !.pc = "sleep"]
             ELSE raised([q EXCEPT !.last_error = out.kind], out.kind)

\* one pass of the loop body: the request, then break, or sleep and continue, or raise
attempt_result(p, out) ==
    LET q == [p EXCEPT !.trace = Append(@, Event("attempt", out.kind, 0))]
    IN  IF out.kind = "response"
        THEN after_loop([q EXCEPT !.status_code = out.status,
                                  !.response_headers = out.headers,
                                  !.response_body = out.body,
                                  !.upstream = out])
        ELSE IF IsRequestError(out.kind) /\ p.attempt < p.max_retries
             THEN [q EXCEPT !.last_error = out.kind, !.pc = "sleep"]
             ELSE raised([q EXCEPT !.last_error = out.kind], out.kind)

\* the Response proxy_request builds: the three headers popped
build_response(p) ==
    [status |-> p.status_code, headers |-> p.response_headers \ StrippedHeaders,
     body |-> p.response_body]

\* execute_after on the way back: CircuitBreakerPlugin.after_response sets
\* X-Circuit-State on the response, no other plugin touches it
after_response_headers(response) ==
    IF settings.circuit_breaker_enabled
    THEN [response EXCEPT !.headers = @ \cup {"x-circuit-state"}]
    ELSE response

\* gateway_proxy_handler calls proxy_request with the configured max_retries
ProxyStart ==
    /\ proxy.pc \in {"idle", "returned"}
    /\ proxy' = ProxyLocals(settings.proxy_max_retries)
    /\ UNCHANGED <<gatewayVars, chainVars, cacheVars, balancerVars, authVars, metricsVars, matcherVars, lockVars, janitorVars>>

\* await client.request(...) of the current attempt comes back
ProxyAttempt(out) ==
    /\ proxy.pc = "attempt"
    /\ proxy' = attempt_result(proxy, out)
    /\ UNCHANGED <<gatewayVars, chainVars, cacheVars, balancerVars, authVars, metricsVars, matcherVars, lockVars, janitorVars>>

\* await asyncio.sleep(settings.proxy_retry_delay) is over, the loop continues
ProxySleep ==
    /\ proxy.pc = "sleep"
    /\ proxy' = [proxy EXCEPT !.pc = "attempt", !.attempt = @ + 1,
                              !.trace = Append(@, Event("sleep", "",
                                                        settings.proxy_retry_delay))]
    /\ UNCHANGED <<gatewayVars, chainVars, cacheVars, balancerVars, authVars, metricsVars, matcherVars, lockVars, janitorVars>>

\* proxy_request returns its Response, execute_after runs, the client is answered
ProxyReturn ==
    /\ proxy.pc = "done"
    /\ proxy' = [proxy EXCEPT !.pc = "returned",
                              !.client = after_response_headers(build_response(proxy))]
    /\ UNCHANGED <<gatewayVars, chainVars, cacheVars, balancerVars, authVars, metricsVars, matcherVars, lockVars, janitorVars>>

NextProxy ==
    \/ ProxyStart
    \/ \E out \in AttemptOutcomes : ProxyAttempt(out)
    \/ ProxySleep
    \/ ProxyReturn

\* ------------------------------------------------------------- balancers
MaxCounter == 3

InstanceIds == {"svc-1", "svc-2"}

\* the configured weight of each instance
weight(id) == IF id = "svc-1" THEN 1 ELSE 2

\* id.rsplit("-", 1)[0] of the instance ids in use
ServiceOf(id) == "svc"

\* the lists a balancer is called with: instances of the pool, none twice
InstanceLists ==
    {list \in SeqsUpTo(InstanceIds, Cardinality(InstanceIds)) :
        \A i, j \in 1..Len(list) : i # j => list[i] # list[j]}

\* [i for i in instances if i.healthy]
healthy_of(list) == SelectSeq(list, LAMBDA id : pool[id].healthy)

\* RoundRobinBalancer.select: the instance, None as <<>>
RoundRobinBalancer_select(list) ==
    LET hs == healthy_of(list)
    IN  IF hs = <<>> THEN None
        ELSE <<hs[(_counters[ServiceOf(hs[1])] % Len(hs)) + 1]>>

\* select that reads the counter and does not store the new value
RoundRobinBalancer_counters_lost(list) ==
    _counters

\* the counters after RoundRobinBalancer.select
RoundRobinBalancer_counters(list) ==
    LET hs == healthy_of(list)
    IN  IF hs = <<>> THEN _counters
        ELSE [_counters EXCEPT ![ServiceOf(hs[1])] = @ + 1]

\* RandomBalancer.select: the instances random.choice can return
RandomBalancer_select(list) ==
    LET hs == healthy_of(list)
    IN  IF hs = <<>> THEN {None}
        ELSE {<<hs[i]>> : i \in 1..Len(hs)}

\* active_connections / max(weight, 1) of a is at most that of b
KeyLeq(a, b) ==
    pool[a].active_connections * Max(weight(b), 1)
        <= pool[b].active_connections * Max(weight(a), 1)

\* min(...) over the list: the first instance with the least key
FirstLeast(hs) ==
    LET least == {i \in 1..Len(hs) : \A j \in 1..Len(hs) : KeyLeq(hs[i], hs[j])}
    IN  <<hs[CHOOSE i \in least : \A j \in least : i <= j]>>

\* least-conn without the healthy filter
LeastConnBalancer_select_all(list) ==
    IF list = <<>> THEN None ELSE FirstLeast(list)

\* LeastConnBalancer.select
LeastConnBalancer_select(list) ==
    LET hs == healthy_of(list)
    IN  IF hs = <<>> THEN None ELSE FirstLeast(hs)

\* LoadBalancerFactory.create(settings.load_balance_strategy).select(list):
\* the results it can give
balancer_select(list) ==
    IF settings.load_balance_strategy = "random" THEN RandomBalancer_select(list)
    ELSE IF settings.load_balance_strategy = "least_conn"
    THEN {LeastConnBalancer_select(list)}
    ELSE {RoundRobinBalancer_select(list)}

balancer_counters(list) ==
    IF settings.load_balance_strategy = "round_robin"
    THEN RoundRobinBalancer_counters(list)
    ELSE _counters

Picked(op, list, result, status, forwarded) ==
    [op |-> op, list |-> list, result |-> result, status |-> status,
     forwarded |-> forwarded,
     was_healthy |-> {id \in InstanceIds : pool[id].healthy},
     connections |-> [id \in InstanceIds |-> pool[id].active_connections]]

NotPicked == [op |-> "", list |-> <<>>, result |-> None, status |-> 0,
              forwarded |-> FALSE, was_healthy |-> {},
              connections |-> [id \in InstanceIds |-> 0]]

CounterBelowMax ==
    \A svc \in DOMAIN _counters : _counters[svc] < MaxCounter

\* a call of the configured balancer on a list of instances
BalancerSelect(list) ==
    /\ CounterBelowMax
    /\ \E result \in balancer_select(list) :
          picked' = Picked("select", list, result, 0, FALSE)
    /\ _counters' = balancer_counters(list)
    /\ UNCHANGED <<gatewayVars, chainVars, cacheVars, proxyVars, authVars, metricsVars, matcherVars, lockVars, janitorVars, pool>>

\* gateway_proxy_handler from the balancer to the forwarder: select on
\* [route.target_service]; None is answered 503, an instance is acquired and
\* the request goes upstream
RouterDispatch(id) ==
    /\ CounterBelowMax
    /\ pool[id].active_connections < NumRequests
    /\ \E result \in balancer_select(<<id>>) :
          /\ picked' = Picked("dispatch", <<id>>, result,
                              IF result = None THEN 503 ELSE 0, result # None)
          /\ pool' = IF result = None THEN pool
                     ELSE [pool EXCEPT ![result[1]].active_connections = @ + 1]
    /\ _counters' = balancer_counters(<<id>>)
    /\ UNCHANGED <<gatewayVars, chainVars, cacheVars, proxyVars, authVars, metricsVars, matcherVars, lockVars, janitorVars>>

\* the forwarded request is over: connection_tracker.release
RouterComplete(id) ==
    /\ pool[id].active_connections > 0
    /\ pool' = [pool EXCEPT ![id].active_connections = Max(0, @ - 1)]
    /\ picked' = Picked("complete", <<id>>, None, 0, FALSE)
    /\ UNCHANGED <<gatewayVars, chainVars, cacheVars, proxyVars, authVars, metricsVars, matcherVars, lockVars, janitorVars, _counters>>

\* the registry reports another health of an instance
SetHealthy(id, h) ==
    /\ pool[id].healthy # h
    /\ pool' = [pool EXCEPT ![id].healthy = h]
    /\ picked' = Picked("health", <<id>>, None, 0, FALSE)
    /\ UNCHANGED <<gatewayVars, chainVars, cacheVars, proxyVars, authVars, metricsVars, matcherVars, lockVars, janitorVars, _counters>>

NextBalancer ==
    \/ \E list \in InstanceLists : BalancerSelect(list)
    \/ \E id \in InstanceIds : RouterDispatch(id)
    \/ \E id \in InstanceIds : RouterComplete(id)
    \/ \E id \in InstanceIds, h \in BOOLEAN : SetHealthy(id, h)

\* ------------------------------------------------------------- authentication plugin
\* a token is modelled by its length; the empty string has length 0
TokenLengths == {0, 5, 12}

\* the Authorization header: absent, or a value with or without "Bearer " and
\* the length of what follows
AuthorizationHeaders ==
    {None, <<[bearer |-> FALSE, length |-> 12]>>}
        \cup {<<[bearer |-> TRUE, length |-> n]>> : n \in TokenLengths}

\* the access_token cookie and the X-Auth-Token header: absent or a value
TokenValues == {None, <<12>>}

AuthPaths == {<<"/", "p">>, <<"/", "p", "/", "a">>, <<"/", "q">>}

PublicPathLists == {<<>>, <<<<"/", "p">>>>,
                    <<<<"/", "q", "/", "**">>, <<"/", "p", "/", "*">>>>}

\* route.auth_config: None, or an AuthConfig
AuthConfigs ==
    {None, <<[require_auth |-> FALSE, public_paths |-> <<>>, login_redirect |-> TRUE]>>}
        \cup {<<[require_auth |-> TRUE, public_paths |-> pp, login_redirect |-> lr]>> :
                 pp \in PublicPathLists, lr \in BOOLEAN}

\* route.auth_service with what its validate endpoint does: None, a status, or
\* 0 for a call that raises
AuthServices == {None, <<200>>, <<401>>, <<500>>, <<0>>}

AuthRequests ==
    [path : AuthPaths, authorization : AuthorizationHeaders, cookie : TokenValues,
     x_auth_token : TokenValues, is_api_request : BOOLEAN,
     auth_config : AuthConfigs, auth_service : AuthServices]

StartsWith(str, prefix) ==
    Len(str) >= Len(prefix) /\ SubSeq(str, 1, Len(prefix)) = prefix

EndsWith(str, suffix) ==
    Len(str) >= Len(suffix)
        /\ SubSeq(str, Len(str) - Len(suffix) + 1, Len(str)) = suffix

\* the body of the loop of _is_public_path for one pattern
is_public_by(pattern, path) ==
    IF EndsWith(pattern, <<"/", "**">>)
    THEN LET prefix == SubSeq(pattern, 1, Len(pattern) - 2)
         IN  path = prefix \/ StartsWith(path, prefix \o <<Slash>>)
    ELSE IF EndsWith(pattern, <<"/", "*">>)
    THEN LET prefix == SubSeq(pattern, 1, Len(pattern) - 2)
         IN  /\ StartsWith(path, prefix \o <<Slash>>)
             /\ NoSlash(SubSeq(path, Len(prefix) + 2, Len(path)))
    ELSE IF Contains(pattern, "*") \/ Contains(pattern, "**")
    THEN fnmatch(path, pattern)
    ELSE path = pattern

\* AuthenticationPlugin._is_public_path
_is_public_path(path, auth_config) ==
    \E i \in 1..Len(auth_config.public_paths) :
        is_public_by(auth_config.public_paths[i], path)

\* AuthenticationPlugin._extract_token: the token as <<length>>, None without one
_extract_token(req) ==
    IF req.authorization # None
          /\ (req.authorization[1].bearer \/ req.authorization[1].length > 0)
    THEN <<req.authorization[1].length>>
    ELSE IF req.cookie # None /\ req.cookie[1] > 0
    THEN req.cookie
    ELSE IF req.x_auth_token # None /\ req.x_auth_token[1] > 0
    THEN req.x_auth_token
    ELSE None

\* _validate_token without the test of the length
_validate_token_any_length(req, token) ==
    IF req.auth_service = None THEN TRUE
    ELSE IF req.auth_service[1] = 200 THEN TRUE
    ELSE IF req.auth_service[1] = 401 THEN FALSE
    ELSE IF req.auth_service[1] = 0 THEN settings.auth_degrade_allow
    ELSE TRUE

\* AuthenticationPlugin._validate_token
_validate_token(req, token) ==
    IF token[1] < 10 THEN FALSE
    ELSE IF req.auth_service = None THEN TRUE
    ELSE IF req.auth_service[1] = 200 THEN TRUE
    ELSE IF req.auth_service[1] = 401 THEN FALSE
    ELSE IF req.auth_service[1] = 0 THEN settings.auth_degrade_allow
    ELSE TRUE

\* AuthenticationPlugin._create_auth_response: its status
_create_auth_response(req, auth_config) ==
    IF req.is_api_request THEN 401
    ELSE IF auth_config.login_redirect THEN 302
    ELSE 401

\* AuthenticationPlugin.before_request: the status of ctx.short_circuit_response,
\* 0 when the plugin lets the request pass
Auth_before_request(req) ==
    IF ~settings.auth_plugin_enabled THEN 0
    ELSE IF req.auth_config = None THEN 0
    ELSE LET auth_config == req.auth_config[1]
             token == _extract_token(req)
         IN  IF ~auth_config.require_auth THEN 0
             ELSE IF _is_public_path(req.path, auth_config) THEN 0
             ELSE IF token # None /\ token[1] > 0 /\ _validate_token(req, token) THEN 0
             ELSE _create_auth_response(req, auth_config)

NoAuth == [pc |-> "idle", req |-> None, status |-> 0, forwarded |-> FALSE]

\* a request reaches the plugin chain: the authentication plugin runs first
AuthRequest(req) ==
    /\ authed.pc = "idle"
    /\ authed' = [pc |-> "checked", req |-> <<req>>, status |-> Auth_before_request(req),
                   forwarded |-> FALSE]
    /\ UNCHANGED <<gatewayVars, chainVars, cacheVars, proxyVars, balancerVars, metricsVars, matcherVars, lockVars, janitorVars>>

\* the rest of the handler: a short-circuit response is returned at once;
\* otherwise the later plugins and the balancer decide whether the request
\* goes upstream
AuthContinue(others_pass) ==
    /\ authed.pc = "checked"
    /\ authed' = [authed EXCEPT !.pc = "answered",
                                !.forwarded = authed.status = 0 /\ others_pass]
    /\ UNCHANGED <<gatewayVars, chainVars, cacheVars, proxyVars, balancerVars, metricsVars, matcherVars, lockVars, janitorVars>>

\* the next request
AuthDone ==
    /\ authed.pc = "answered"
    /\ authed' = NoAuth
    /\ UNCHANGED <<gatewayVars, chainVars, cacheVars, proxyVars, balancerVars, metricsVars, matcherVars, lockVars, janitorVars>>

NextAuth ==
    \/ \E req \in AuthRequests : AuthRequest(req)
    \/ \E others_pass \in BOOLEAN : AuthContinue(others_pass)
    \/ AuthDone

\* ------------------------------------------------------- metrics accumulator
\* observability/metrics.py, and the exits of gateway/router.py's handler

MaxHandled == 3
window_size == 2

Latencies == {1, 2}
MetricRoutes == {"/a/**", "/b/**"}
MetricStatuses == {200, 302, 401, 404, 429, 500, 502, 503, 504}
target_service_of(route_pattern) ==
    IF route_pattern = "/a/**" THEN "svc-a" ELSE "svc-b"

MetricsBucket ==
    [request_count |-> 0,
     error_count |-> 0,
     total_latency_ms |-> 0,
     status_codes |-> [s \in MetricStatuses |-> 0],
     latencies |-> <<>>]

\* defaultdict(MetricsBucket): a missing key reads as a fresh bucket
bucket_of(buckets, key) ==
    IF key \in DOMAIN buckets THEN buckets[key] ELSE MetricsBucket

\* the loop body of record evicting the newest sample of a full window
record_bucket_evicts_newest(bucket, status_code, latency_ms) ==
    LET appended == Append(bucket.latencies, latency_ms)
    IN  [request_count |-> bucket.request_count + 1,
         error_count |->
            bucket.error_count + (IF status_code >= 400 THEN 1 ELSE 0),
         total_latency_ms |-> bucket.total_latency_ms + latency_ms,
         status_codes |->
            [bucket.status_codes EXCEPT ![status_code] = @ + 1],
         latencies |->
            IF Len(appended) > window_size
            THEN SubSeq(appended, 1, window_size)
            ELSE appended]

\* the loop body of record, for one bucket
record_bucket(bucket, status_code, latency_ms) ==
    LET appended == Append(bucket.latencies, latency_ms)
    IN  [request_count |-> bucket.request_count + 1,
         error_count |->
            bucket.error_count + (IF status_code >= 400 THEN 1 ELSE 0),
         total_latency_ms |-> bucket.total_latency_ms + latency_ms,
         status_codes |->
            [bucket.status_codes EXCEPT ![status_code] = @ + 1],
         latencies |->
            IF Len(appended) > window_size THEN Tail(appended) ELSE appended]

\* record that is interrupted after the global and the per-route bucket
record_without_service(route_pattern, target_service, status_code, latency_ms) ==
    [global |-> record_bucket(_global, status_code, latency_ms),
     by_route |->
        [k \in DOMAIN _by_route \cup {route_pattern} |->
            IF k = route_pattern
            THEN record_bucket(bucket_of(_by_route, k), status_code, latency_ms)
            ELSE _by_route[k]],
     by_service |->
        [k \in DOMAIN _by_service \cup {target_service} |->
            bucket_of(_by_service, k)]]

\* the three buckets after record(route_pattern, target_service, status, latency)
record(route_pattern, target_service, status_code, latency_ms) ==
    [global |-> record_bucket(_global, status_code, latency_ms),
     by_route |->
        [k \in DOMAIN _by_route \cup {route_pattern} |->
            IF k = route_pattern
            THEN record_bucket(bucket_of(_by_route, k), status_code, latency_ms)
            ELSE _by_route[k]],
     by_service |->
        [k \in DOMAIN _by_service \cup {target_service} |->
            IF k = target_service
            THEN record_bucket(bucket_of(_by_service, k), status_code, latency_ms)
            ELSE _by_service[k]]]

\* what happens to one request on its way through the handler: the route it
\* matches (None: no route), the status of the response a before hook answers
\* with (0: none short-circuits), whether the balancer finds an instance, the
\* status of the response proxy_request returns (0: the call raises), and the
\* time the request takes
Fate(route, short_circuit, instance, upstream, latency_ms) ==
    [route |-> route,
     short_circuit |-> short_circuit,
     instance |-> instance,
     upstream |-> upstream,
     latency_ms |-> latency_ms]

ShortCircuitStatuses == {302, 401, 429, 503}
ProxyStatuses == {200, 500, 502, 504}

Fates ==
    {Fate(None, 0, FALSE, 0, 1)}
    \cup {Fate(<<r>>, s, FALSE, 0, 1) : r \in MetricRoutes, s \in ShortCircuitStatuses}
    \cup {Fate(<<r>>, 0, FALSE, 0, 1) : r \in MetricRoutes}
    \cup {Fate(<<r>>, 0, TRUE, u, l) :
            r \in MetricRoutes, u \in ProxyStatuses \cup {0}, l \in Latencies}

\* the exit the handler takes, the status the client sees, and whether the
\* exit passes the call of metrics_collector.record
handler_exit(f) ==
    IF f.route = None
    THEN [exit |-> "no_route", status |-> 404, records |-> FALSE]
    ELSE IF f.short_circuit # 0
    THEN [exit |-> "short_circuit", status |-> f.short_circuit, records |-> FALSE]
    ELSE IF ~f.instance
    THEN [exit |-> "no_instance", status |-> 503, records |-> FALSE]
    ELSE IF f.upstream = 0
    THEN [exit |-> "error", status |-> 502, records |-> FALSE]
    ELSE [exit |-> "forwarded", status |-> f.upstream, records |-> TRUE]

\* history of the handler: how many requests it answered, the last answer, and
\* the calls of record so far, in order
NoneHandled ==
    [count |-> 0, exit |-> "none", status |-> 0, latency_ms |-> 0, samples |-> <<>>]

gateway_proxy_handler(f) ==
    LET e == handler_exit(f)
        r == record(f.route[1], target_service_of(f.route[1]), e.status, f.latency_ms)
    IN  /\ handled.count < MaxHandled
        /\ IF e.records
           THEN /\ _global' = r.global
                /\ _by_route' = r.by_route
                /\ _by_service' = r.by_service
           ELSE UNCHANGED <<_global, _by_route, _by_service>>
        /\ handled' = [count |-> handled.count + 1,
                       exit |-> e.exit,
                       status |-> e.status,
                       latency_ms |-> f.latency_ms,
                       samples |->
                          IF e.records
                          THEN Append(handled.samples,
                                      [route |-> f.route[1],
                                       service |-> target_service_of(f.route[1]),
                                       status |-> e.status,
                                       latency_ms |-> f.latency_ms])
                          ELSE handled.samples]
        /\ UNCHANGED <<gatewayVars, chainVars, cacheVars, proxyVars, balancerVars, authVars, matcherVars, lockVars, janitorVars>>

NextMetrics == \E f \in Fates : gateway_proxy_handler(f)

\* ------------------------------------------------------- tasks and locks
\* the asyncio tasks of the gateway as the sequence of their suspension
\* points and critical sections

MaxTasks == 2

Tasks == ({"handler"} \X (1..MaxTasks)) \cup {<<"refresh", 0>>, <<"janitor", 0>>}

Locks == {"rate_limit", "breaker", "tracker", "metrics", "route_cache"}

\* an await on something outside the process
suspend(on) == [kind |-> "suspend", arg |-> on]
\* async with self._lock: entry, body, exit
acquire_lock(lock) == [kind |-> "acquire", arg |-> lock]
update(lock) == [kind |-> "update", arg |-> lock]
release_lock(lock) == [kind |-> "release", arg |-> lock]

critical_section(lock) == <<acquire_lock(lock), update(lock), release_lock(lock)>>

\* a handler that keeps the breaker's lock from before_request to after_response
handler_program_locked_call ==
    <<suspend("auth_validate")>>
        \o critical_section("rate_limit")
        \o <<acquire_lock("breaker"), update("breaker")>>
        \o critical_section("tracker")
        \o <<suspend("request_body"), suspend("upstream_call"), suspend("retry_sleep")>>
        \o <<update("breaker"), update("breaker"), release_lock("breaker")>>
        \o critical_section("metrics")
        \o critical_section("tracker")

\* gateway_proxy_handler with the hooks and calls it awaits, in order:
\* auth validate call, rate limiter, breaker admission, connection_tracker.acquire,
\* proxy_request (body, upstream call, retry sleep), breaker after_response or
\* on_error, metrics_collector.record, connection_tracker.release
handler_program ==
    <<suspend("auth_validate")>>
        \o critical_section("rate_limit")
        \o critical_section("breaker")
        \o critical_section("tracker")
        \o <<suspend("request_body"), suspend("upstream_call"), suspend("retry_sleep")>>
        \o critical_section("breaker")
        \o critical_section("metrics")
        \o critical_section("tracker")

\* where the handler goes besides the next step: after step i to step j.
\* A before hook short-circuits (back to the start for the next request), the
\* upstream call succeeds without a retry sleep, the sleep is followed by the
\* next attempt, on_error is followed by no record
handler_jumps ==
    {<<1, 1>>, <<4, 1>>, <<7, 1>>, <<12, 14>>, <<13, 12>>, <<16, 20>>}

\* RouteCache._refresh_loop: sleep, refresh (GET routes, swap under the lock,
\* _refresh_services: GET services, swap under the lock)
refresh_program ==
    <<suspend("refresh_sleep"), suspend("registry_call")>>
        \o critical_section("route_cache")
        \o <<suspend("registry_call")>>
        \o critical_section("route_cache")

\* a failed GET leaves refresh without touching the lock
refresh_jumps == {<<2, 1>>, <<6, 1>>}

\* RateLimitPlugin._cleanup_loop
janitor_program ==
    <<suspend("cleanup_sleep")>> \o critical_section("rate_limit")

program(t) ==
    IF t[1] = "handler" THEN handler_program
    ELSE IF t[1] = "refresh" THEN refresh_program
    ELSE janitor_program

jumps(t) ==
    IF t[1] = "handler" THEN handler_jumps
    ELSE IF t[1] = "refresh" THEN refresh_jumps
    ELSE {}

\* the step the task is at
at(t) == program(t)[tasks[t].pc]

\* the positions after the step at pc: the next one (the first after the
\* last) and the targets of the jumps
after(t) ==
    LET pc == tasks[t].pc
    IN  {IF pc = Len(program(t)) THEN 1 ELSE pc + 1}
            \cup {j[2] : j \in {k \in jumps(t) : k[1] = pc}}

free(lock) == \A t \in Tasks : lock \notin tasks[t].held

\* the awaited call, sleep or read is over and the task runs on
Resume(t) ==
    /\ at(t).kind = "suspend"
    /\ \E pc \in after(t) : tasks' = [tasks EXCEPT ![t].pc = pc]
    /\ UNCHANGED <<gatewayVars, chainVars, cacheVars, proxyVars, balancerVars, authVars,
                   metricsVars, matcherVars, janitorVars>>

\* asyncio.Lock.acquire: the task gets the lock once it is free
Acquire(t) ==
    /\ at(t).kind = "acquire"
    /\ free(at(t).arg)
    /\ \E pc \in after(t) :
          tasks' = [tasks EXCEPT ![t].pc = pc, ![t].held = @ \cup {at(t).arg}]
    /\ UNCHANGED <<gatewayVars, chainVars, cacheVars, proxyVars, balancerVars, authVars,
                   metricsVars, matcherVars, janitorVars>>

\* the body of the critical section: updates of in-memory state
Update(t) ==
    /\ at(t).kind = "update"
    /\ \E pc \in after(t) : tasks' = [tasks EXCEPT ![t].pc = pc]
    /\ UNCHANGED <<gatewayVars, chainVars, cacheVars, proxyVars, balancerVars, authVars,
                   metricsVars, matcherVars, janitorVars>>

\* the end of the async with block
Release(t) ==
    /\ at(t).kind = "release"
    /\ \E pc \in after(t) :
          tasks' = [tasks EXCEPT ![t].pc = pc, ![t].held = @ \ {at(t).arg}]
    /\ UNCHANGED <<gatewayVars, chainVars, cacheVars, proxyVars, balancerVars, authVars,
                   metricsVars, matcherVars, janitorVars>>

NextLocks ==
    \E t \in Tasks : Resume(t) \/ Acquire(t) \/ Update(t) \/ Release(t)

\* ------------------------------------------------------- bucket janitor
\* the buckets of the map that stay: those whose key is not in stale
Without(buckets, stale) ==
    [k \in DOMAIN buckets \ stale |-> buckets[k]]

\* cleanup_stale_buckets evicting every bucket that was not used this instant
cleanup_stale_buckets_eager(rb, ib, max_idle, t) ==
    LET stale_routes == {k \in DOMAIN rb : t - rb[k].last_refill > 0}
        stale_ips == {k \in DOMAIN ib : t - ib[k].last_refill > 0}
    IN  [route_buckets |-> Without(rb, stale_routes),
         ip_buckets |-> Without(ib, stale_ips),
         cleaned |-> Cardinality(stale_routes) + Cardinality(stale_ips)]

\* cleanup_stale_buckets evicting already at the threshold
cleanup_stale_buckets_at_threshold(rb, ib, max_idle, t) ==
    LET stale_routes ==
            {k \in DOMAIN rb : t - rb[k].last_refill >= max_idle * TicksPerSec}
        stale_ips ==
            {k \in DOMAIN ib : t - ib[k].last_refill >= max_idle * TicksPerSec}
    IN  [route_buckets |-> Without(rb, stale_routes),
         ip_buckets |-> Without(ib, stale_ips),
         cleaned |-> Cardinality(stale_routes) + Cardinality(stale_ips)]

\* RateLimitPlugin.cleanup_stale_buckets: the two maps without the buckets that
\* were idle for more than max_idle seconds, and how many were deleted
cleanup_stale_buckets(rb, ib, max_idle, t) ==
    LET stale_routes ==
            {k \in DOMAIN rb : t - rb[k].last_refill > max_idle * TicksPerSec}
        stale_ips ==
            {k \in DOMAIN ib : t - ib[k].last_refill > max_idle * TicksPerSec}
    IN  [route_buckets |-> Without(rb, stale_routes),
         ip_buckets |-> Without(ib, stale_ips),
         cleaned |-> Cardinality(stale_routes) + Cardinality(stale_ips)]

\* the dimensions whose bucket the plugin had to create while the limiter
\* that was never cleaned still had it
Recreated(tries, twin_tries) ==
    {tries[i].dim : i \in {j \in 1..Min(Len(tries), Len(twin_tries)) :
                              tries[j].fresh /\ ~twin_tries[j].fresh}}

\* RateLimitPlugin.before_request for one request, on the plugin's buckets and
\* on those of the limiter that is never cleaned
Admission(route_key, client_ip) ==
    LET rl == RateLimit_before_request(global_bucket, route_buckets, ip_buckets,
                                       route_key, client_ip, now)
        twin == RateLimit_before_request(unswept.global_bucket, unswept.route_buckets,
                                         unswept.ip_buckets, route_key, client_ip, now)
    IN  /\ settings.rate_limit_enabled
        /\ global_bucket' = rl.global_bucket
        /\ route_buckets' = rl.route_buckets
        /\ ip_buckets' = rl.ip_buckets
        /\ unswept' = [global_bucket |-> twin.global_bucket,
                       route_buckets |-> twin.route_buckets,
                       ip_buckets |-> twin.ip_buckets,
                       op |-> "before_request",
                       response |-> rl.short_circuit_response,
                       twin_response |-> twin.short_circuit_response,
                       recreated |-> Recreated(rl.tries, twin.tries),
                       cleaned |-> 0]
        /\ UNCHANGED <<now, settings, breakers, generation, healthy, active_connections,
                       in_flight, streak, granted, last, failed_at>>
        /\ UNCHANGED <<chainVars, cacheVars, proxyVars, balancerVars, authVars,
                       metricsVars, matcherVars, lockVars>>

\* one round of _cleanup_loop after its sleep: cleanup_stale_buckets with the
\* default max_idle_seconds, under the plugin's lock
_cleanup_loop ==
    LET c == cleanup_stale_buckets(route_buckets, ip_buckets, max_idle_seconds, now)
    IN  /\ route_buckets' = c.route_buckets
        /\ ip_buckets' = c.ip_buckets
        /\ unswept' = [unswept EXCEPT !.op = "cleanup", !.cleaned = c.cleaned,
                                      !.recreated = {}]
        /\ UNCHANGED <<now, settings, breakers, global_bucket, generation, healthy,
                       active_connections, in_flight, streak, granted, last, failed_at>>
        /\ UNCHANGED <<chainVars, cacheVars, proxyVars, balancerVars, authVars,
                       metricsVars, matcherVars, lockVars>>

NextJanitor ==
    \/ \E route \in Routes, ip \in IPs : Admission(route, ip)
    \/ _cleanup_loop
    \/ Tick

\* ------------------------------------------------------------- initial states
BaseSettings ==
    [auth_plugin_enabled |-> TRUE,
     auth_degrade_allow |-> FALSE,
     local_routes_priority_boost |-> 1000,
     proxy_max_retries |-> 1,
     load_balance_strategy |-> "round_robin",
     proxy_retry_delay |-> 1,
     circuit_breaker_enabled |-> TRUE,
     circuit_breaker_failure_threshold |-> 1,
     circuit_breaker_success_threshold |-> 1,
     circuit_breaker_timeout |-> 1,
     rate_limit_enabled |-> TRUE,
     rate_limit_global_qps |-> RateDen,
     rate_limit_per_route_qps |-> RateDen,
     rate_limit_per_ip_qps |-> RateDen,
     rate_limit_burst_multiplier |-> BurstDen]

\* circuit breaker under every small configuration, the rate limiter switched off
BreakerSettings ==
    {[BaseSettings EXCEPT
        !.rate_limit_enabled = FALSE,
        !.circuit_breaker_failure_threshold = f,
        !.circuit_breaker_success_threshold = s,
        !.circuit_breaker_timeout = to] :
      f \in 1..MaxFailureThreshold, s \in 1..MaxSuccessThreshold, to \in 1..MaxTimeout}

InitWith(configs) ==
    /\ now = StartTime
    /\ settings \in configs
    /\ breakers = <<>>
    /\ global_bucket = TokenBucket(settings.rate_limit_global_qps, StartTime)
    /\ route_buckets = <<>>
    /\ ip_buckets = <<>>
    /\ generation = 0
    /\ healthy = [s \in Services |-> TRUE]
    /\ active_connections = [i \in Instances |-> 0]
    /\ in_flight = [i \in Instances |-> 0]
    /\ streak = [s \in Services |-> 0]
    /\ granted = [k \in BucketIds |-> [t \in StartTime..EndTime |-> 0]]
    /\ last = Quiet("init")
    /\ failed_at = [s \in Services |-> 0]
    /\ _plugins = create_default_plugin_chain
    /\ hooks = NoHooks
    /\ _remote_routes = <<>>
    /\ _local_routes = <<>>
    /\ _registry_available = FALSE
    /\ matched = NoMatch
    /\ proxy = Idle
    /\ pool = [id \in InstanceIds |-> [healthy |-> TRUE, active_connections |-> 0]]
    /\ _counters = [svc \in {"svc"} |-> 0]
    /\ picked = NotPicked
    /\ authed = NoAuth
    /\ _global = MetricsBucket
    /\ _by_route = <<>>
    /\ _by_service = <<>>
    /\ handled = NoneHandled
    /\ path_match = NoPathMatch
    /\ tasks = [t \in Tasks |-> [pc |-> 1, held |-> {}]]
    /\ unswept = [global_bucket |-> global_bucket,
                  route_buckets |-> <<>>,
                  ip_buckets |-> <<>>,
                  op |-> "init",
                  response |-> NoResponse,
                  twin_response |-> NoResponse,
                  recreated |-> {},
                  cleaned |-> 0]

Init == InitWith(BreakerSettings)

Spec == Init /\ [][Next]_vars

\* rate limiter under small rates (1 and 2 tokens per second, and the smallest
\* per-IP rate) and burst multipliers (1.0 and the next step), the breaker switched off
\* the request pipeline in front of an upstream that recovers, the route table
\* not refreshed
NextRecovery ==
    \/ \E route \in Routes, ip \in IPs, auth \in AuthOutcomes :
          StartRequest(route, ip, auth)
    \/ \E instance \in Instances, out \in Outcomes : UpstreamAnswers(instance, out)
    \/ Tick

\* time advances, every upstream call ends, and requests that pass the auth
\* filter keep arriving
FairRecovery ==
    /\ WF_vars(Tick)
    /\ WF_vars(\E instance \in Instances, out \in Outcomes : UpstreamAnswers(instance, out))
    /\ SF_vars(\E route \in Routes, ip \in IPs : StartRequest(route, ip, "pass"))

\* the breaker trips at the first failure or at the last of MaxFailureThreshold
RecoverySettings ==
    {c \in BreakerSettings :
        c.circuit_breaker_failure_threshold \in {1, MaxFailureThreshold}}

InitRecovery == InitWith(RecoverySettings)

SpecRecovery == InitRecovery /\ [][NextRecovery]_vars /\ FairRecovery

\* auth filter, rate limiter and breaker all on: one global token a second,
\* the breaker trips at the first failure
GuardSettings ==
    {[BaseSettings EXCEPT
        !.rate_limit_global_qps = RateDen,
        !.rate_limit_per_route_qps = 2 * RateDen,
        !.rate_limit_per_ip_qps = RateDen,
        !.rate_limit_burst_multiplier = BurstDen,
        !.circuit_breaker_failure_threshold = 1,
        !.circuit_breaker_success_threshold = s,
        !.circuit_breaker_timeout = 1] : s \in 1..MaxSuccessThreshold}

InitGuard == InitWith(GuardSettings)

RateLimitSettings ==
    {[BaseSettings EXCEPT
        !.circuit_breaker_enabled = FALSE,
        !.rate_limit_global_qps = 2 * RateDen,
        !.rate_limit_per_route_qps = r,
        !.rate_limit_per_ip_qps = i,
        !.rate_limit_burst_multiplier = m] :
      r \in {RateDen, 2 * RateDen}, i \in {1, RateDen}, m \in {BurstDen, BurstDen + 1}}

InitRL == InitWith(RateLimitSettings)

\* the request pipeline over a route table that is not refreshed
NextRL ==
    \/ \E route \in Routes, ip \in IPs, auth \in AuthOutcomes :
          StartRequest(route, ip, auth)
    \/ \E instance \in Instances, out \in Outcomes : UpstreamResult(instance, out)
    \/ Tick

SpecRL == InitRL /\ [][NextRL]_vars

SpecGuard == InitGuard /\ [][NextRL]_vars

\* the rate limiter with bursts of one and of two seconds
JanitorSettings ==
    {[BaseSettings EXCEPT
        !.circuit_breaker_enabled = FALSE,
        !.rate_limit_global_qps = 2 * RateDen,
        !.rate_limit_per_route_qps = 2 * RateDen,
        !.rate_limit_per_ip_qps = RateDen,
        !.rate_limit_burst_multiplier = m] : m \in {BurstDen, 2 * BurstDen}}

InitJanitor == InitWith(JanitorSettings)

\* the rate limiter and its janitor
SpecJanitor == InitJanitor /\ [][NextJanitor]_vars

\* the plugin chain under every combination of the plugin switches
ChainSettings ==
    {[BaseSettings EXCEPT
        !.auth_plugin_enabled = a,
        !.rate_limit_enabled = r,
        !.circuit_breaker_enabled = c] : a \in BOOLEAN, r \in BOOLEAN, c \in BOOLEAN}

InitChain == InitWith(ChainSettings)

SpecChain == InitChain /\ [][NextChain]_vars

\* the route cache and the matcher, from the empty cache of __init__
InitCache == InitWith({BaseSettings})

SpecCache == InitCache /\ [][NextCache]_vars

\* the forwarder under every number of retries, with and without the breaker plugin
ProxySettings ==
    {[BaseSettings EXCEPT !.proxy_max_retries = n, !.circuit_breaker_enabled = cb] :
        n \in 0..MaxRetries, cb \in BOOLEAN}

InitProxy == InitWith(ProxySettings)

SpecProxy == InitProxy /\ [][NextProxy]_vars

\* the balancers under each strategy
BalancerSettings ==
    {[BaseSettings EXCEPT !.load_balance_strategy = strategy] :
        strategy \in {"round_robin", "random", "least_conn"}}

InitBalancer == InitWith(BalancerSettings)

SpecBalancer == InitBalancer /\ [][NextBalancer]_vars

\* the authentication plugin, enabled, with either degrade policy
AuthSettings ==
    {[BaseSettings EXCEPT !.auth_degrade_allow = d] : d \in BOOLEAN}

InitAuth == InitWith(AuthSettings)

SpecAuth == InitAuth /\ [][NextAuth]_vars

InitMetrics == InitWith({BaseSettings})

SpecMetrics == InitMetrics /\ [][NextMetrics]_vars

InitMatcher == InitWith({BaseSettings})

SpecMatcher == InitMatcher /\ [][NextMatcher]_vars

InitLocks == InitWith({BaseSettings})

SpecLocks == InitLocks /\ [][NextLocks]_vars

\* ------------------------------------------------------------- circuit breaker claims
\* the last step ran the breaker operation op on the breaker of service s
BreakerOp(op, s) == last.cb_op = op /\ last.svc = s

\* C1: a breaker that is CLOSED with failure_count = 0 is OPEN right after the
\* failure_threshold-th failure recorded in a row (no success in between).
C1_OpenAfterThresholdFailures ==
    \A s \in Services :
        (BreakerOp("failure", s) /\ streak[s] = failure_threshold)
            => breakers[s].state = OPEN

C1_Witness ==
    \E s \in Services :
        /\ BreakerOp("failure", s)
        /\ failure_threshold >= 2
        /\ streak[s] = failure_threshold
        /\ last.cb_pre.state = CLOSED
        /\ breakers[s].state = OPEN

\* the last step was an admission check of an OPEN breaker of service s,
\* made before (early) or not before (~early) timeout had elapsed since last_failure_time
OpenCheck(s, early) ==
    /\ BreakerOp("allow", s)
    /\ last.cb_pre.state = OPEN
    /\ early <=> (now - last.cb_pre.last_failure_time < timeout)

\* the request of the last step was short-circuited by the breaker: 503 with
\* X-Circuit-State: open, the breaker left OPEN, nothing forwarded
RejectedOpen(s) ==
    /\ breakers[s].state = OPEN
    /\ last.response.status = 503
    /\ last.response.x_circuit_state = OPEN
    /\ ~last.forwarded

Probing(s) ==
    /\ breakers[s].state = HALF_OPEN
    /\ breakers[s].success_count = 0
    /\ last.response.x_circuit_state = ""

\* C3 as stated: an admission check of an OPEN breaker made once timeout has
\* elapsed moves it to HALF_OPEN, zeroes success_count and the request is forwarded.
C3_ProbeIsForwarded ==
    \A s \in Services :
        OpenCheck(s, FALSE) => Probing(s) /\ last.forwarded

\* C3: an admission check of an OPEN breaker made once timeout has elapsed moves
\* it to HALF_OPEN, zeroes success_count and lets the request pass the breaker;
\* the request is forwarded exactly when the target instance is healthy, and is
\* answered 503 without the circuit header otherwise.
C3_ProbeAdmitted ==
    \A s \in Services :
        OpenCheck(s, FALSE)
            => /\ Probing(s)
               /\ last.forwarded <=> healthy[s]
               /\ ~healthy[s] => last.response = HTTPException(503)

C3_Witness ==
    \E s \in Services :
        /\ OpenCheck(s, FALSE)
        /\ last.cb_pre.success_count > 0
        /\ Probing(s)
        /\ last.forwarded

\* C4: a success recorded in HALF_OPEN adds one to success_count; the breaker
\* becomes CLOSED exactly when the count reaches success_threshold and stays
\* HALF_OPEN below it.
C4_HalfOpenSuccess ==
    \A s \in Services :
        (BreakerOp("success", s) /\ last.cb_pre.state = HALF_OPEN)
            => IF last.cb_pre.success_count + 1 >= success_threshold
               THEN breakers[s].state = CLOSED
               ELSE /\ breakers[s].state = HALF_OPEN
                    /\ breakers[s].success_count = last.cb_pre.success_count + 1

C4_Witness ==
    \E s \in Services :
        /\ BreakerOp("success", s)
        /\ last.cb_pre.state = HALF_OPEN
        /\ last.cb_pre.success_count = 1
        /\ success_threshold = 2
        /\ breakers[s].state = CLOSED

\* C5 as stated: a failure recorded in HALF_OPEN moves the breaker to OPEN, zeroes
\* failure_count and success_count and stamps last_failure_time with the current time.
C5_HalfOpenFailureResetsCounts ==
    \A s \in Services :
        (BreakerOp("failure", s) /\ last.cb_pre.state = HALF_OPEN)
            => /\ breakers[s].state = OPEN
               /\ breakers[s].failure_count = 0
               /\ breakers[s].success_count = 0
               /\ breakers[s].last_failure_time = now

\* C6: the step that ends a forwarded request records exactly one result on the
\* breaker of the target service: a failure when the status is 500 or more or an
\* exception escaped the forwarder, a success for every status below 500.
C6_FailureClassification ==
    \A s \in Services :
        (last.kind = "result" /\ last.svc = s)
            => IF last.out_kind = "exception" \/ last.response.status >= 500
               THEN /\ last.cb_op = "failure"
                    /\ breakers[s] = record_failure(last.cb_pre, now)
               ELSE /\ last.cb_op = "success"
                    /\ breakers[s] = record_success(last.cb_pre)

C6_Witness ==
    \E s \in Services :
        /\ last.kind = "result"
        /\ last.svc = s
        /\ last.response.status = 404
        /\ last.cb_op = "success"
        /\ last.cb_pre.state = CLOSED
        /\ last.cb_pre.failure_count > 0
        /\ breakers[s].failure_count = 0

\* ------------------------------------------------------------- rate limiter claims
\* the order in which before_request is specified to try the dimensions
DimensionOrder == <<"global", "route", "ip">>

\* the last step ran the rate limiter
RateLimited == last.kind = "start" /\ Len(last.tries) > 0

\* C7: the rate limiter tries global, then route, then ip, and stops at the first
\* failed acquisition, which short-circuits the request with 429, Retry-After: 1
\* and X-RateLimit-Type naming that dimension; a request passes the limiter only
\* when all three acquisitions succeeded.
C7_FirstFailingDimension ==
    RateLimited =>
        LET n == Len(last.tries)
        IN  /\ n <= 3
            /\ \A i \in 1..n : last.tries[i].dim = DimensionOrder[i]
            /\ \A i \in 1..(n - 1) : last.tries[i].ok
            /\ IF last.tries[n].ok
               THEN n = 3 /\ last.response.status # 429
               ELSE /\ last.response = Resp(429, <<1>>, "", DimensionOrder[n])
                    /\ ~last.forwarded
            /\ last.forwarded => n = 3 /\ \A i \in 1..3 : last.tries[i].ok

C7_Witness ==
    /\ RateLimited
    /\ Len(last.tries) = 2
    /\ last.tries[1].ok
    /\ ~last.tries[2].ok
    /\ last.response = Resp(429, <<1>>, "", "route")
    /\ "10.0.0.2" \notin DOMAIN ip_buckets

\* the refill rate the plugin gives the bucket k
RateOf(k) ==
    IF k[1] = "global" THEN settings.rate_limit_global_qps
    ELSE IF k[1] = "route" THEN settings.rate_limit_per_route_qps
    ELSE settings.rate_limit_per_ip_qps

\* tokens granted by bucket k at the instants t1..t2
GrantedIn(k, t1, t2) ==
    LET n[t \in (t1 - 1)..t2] == IF t < t1 THEN 0 ELSE granted[k][t] + n[t - 1]
    IN  n[t2]

\* per_ip_qps = 1 and burst multiplier 1.0
OnePerSecondPerIP ==
    /\ settings.rate_limit_per_ip_qps = RateDen
    /\ settings.rate_limit_burst_multiplier = BurstDen

\* the per-IP attempt of the last step came at an instant at which its bucket
\* had already granted a token
SecondImmediate ==
    /\ RateLimited
    /\ Len(last.tries) = 3
    /\ LET a == last.tries[3]
       IN  granted[<<"ip", a.key>>][now] - (IF a.ok THEN 1 ELSE 0) >= 1

\* C8: a bucket of rate R and capacity C grants at most C + R*T tokens in any
\* interval of length T; with per_ip_qps = 1 and burst multiplier 1.0 the first
\* request of an IP passes the limiter and a second one at the same instant is
\* rejected with 429 and X-RateLimit-Type: ip.
C8_GrantedRateBounded ==
    /\ \A k \in BucketIds : \A t1 \in StartTime..now : \A t2 \in t1..now :
            GrantedIn(k, t1, t2) * TokenScale
                <= Capacity(RateOf(k)) + Refill(t2 - t1, RateOf(k))
    /\ OnePerSecondPerIP =>
            /\ (RateLimited /\ Len(last.tries) = 3 /\ last.tries[3].fresh)
                    => last.tries[3].ok /\ last.response.status # 429
            /\ SecondImmediate
                    => /\ ~last.tries[3].ok
                       /\ last.response.status = 429
                       /\ last.response.x_ratelimit_type = "ip"

C8_Witness ==
    /\ OnePerSecondPerIP
    /\ SecondImmediate
    /\ last.response.x_ratelimit_type = "ip"
    /\ \E t1 \in StartTime..now :
            /\ t1 < now
            /\ GrantedIn(<<"ip", last.tries[3].key>>, t1, now) = 2
            /\ 2 * TokenScale = Capacity(RateOf(<<"ip", "">>))
                                    + Refill(now - t1, RateOf(<<"ip", "">>))

\* every bucket the plugin holds, by dimension and key
Buckets ==
    [k \in {<<"global", "">>} \cup ({"route"} \X DOMAIN route_buckets)
                               \cup ({"ip"} \X DOMAIN ip_buckets) |->
        IF k[1] = "global" THEN global_bucket
        ELSE IF k[1] = "route" THEN route_buckets[k[2]]
        ELSE ip_buckets[k[2]]]

\* tokens of the bucket pre after the lazy refill at time t
Refilled(pre, t) ==
    Min(pre.capacity, pre.tokens + Refill(t - pre.last_refill, pre.refill_rate))

\* C9: every bucket keeps 0 <= tokens <= capacity; a granted acquisition leaves
\* the refilled tokens less exactly one token, a refused one leaves the refilled
\* tokens untouched.
C9_TokensWithinCapacity ==
    /\ \A k \in DOMAIN Buckets :
            /\ Buckets[k].capacity = Capacity(RateOf(k))
            /\ 0 <= Buckets[k].tokens
            /\ Buckets[k].tokens <= Buckets[k].capacity
    /\ RateLimited =>
            \A i \in 1..Len(last.tries) :
                LET a == last.tries[i]
                IN  /\ Buckets[<<a.dim, a.key>>] = a.post
                    /\ a.post.tokens =
                          Refilled(a.pre, now) - (IF a.ok THEN TokenScale ELSE 0)
                    /\ a.ok <=> Refilled(a.pre, now) >= TokenScale

C9_Witness ==
    /\ RateLimited
    /\ Len(last.tries) = 3
    /\ last.tries[1].ok
    /\ last.tries[1].pre.tokens < Refilled(last.tries[1].pre, now)
    /\ Refilled(last.tries[1].pre, now) = last.tries[1].pre.capacity
    /\ ~last.tries[3].ok
    /\ last.tries[3].post.tokens > 0
    /\ last.tries[3].post.tokens > last.tries[3].pre.tokens

\* ------------------------------------------------------------- connection tracker claims
\* C10: active_connections of every instance object equals the number of requests
\* that acquired it and have not yet returned: one increment before forwarding,
\* one decrement on every exit path, never below zero, zero when nothing is in flight.
C10_ConnectionsBalanced ==
    \A i \in Instances :
        /\ active_connections[i] = in_flight[i]
        /\ active_connections[i] >= 0

C10_Witness ==
    /\ last.kind = "result"
    /\ last.out_kind = "exception"
    /\ generation > 0
    /\ \A i \in Instances : active_connections[i] = 0 /\ in_flight[i] = 0

\* ------------------------------------------------------------- plugin chain claims
\* the priorities of the plugins of seq ascend strictly
Ascending(seq) ==
    \A i \in 1..Len(seq) : \A j \in (i + 1)..Len(seq) : priority(seq[i]) < priority(seq[j])

\* the enabled plugins of the chain, in chain order
EnabledChain == SelectSeq(_plugins, enabled)

Looked == matched.op = "match"

\* the route fits the request that was looked up
Fits(route) ==
    /\ route.enabled
    /\ match_path(route.path_pattern, matched.path)
    /\ match_method(route.methods, matched.method)

\* the positions of the table whose route fits the request
Fitting == {i \in 1..Len(matched.routes) : Fits(matched.routes[i])}

\* the table is the remote route /x of priority 50 and the local route /x of
\* configured priority 0
PriorityScenario ==
    /\ Len(matched.routes) = 2
    /\ \E i, j \in 1..2 :
          /\ matched.routes[i] = RouteInfo(1, <<"/", "x">>, <<"*">>, 50, TRUE, FALSE)
          /\ matched.routes[j] = RouteInfo(0 - 1, <<"/", "x">>, <<"*">>,
                                           0 + settings.local_routes_priority_boost,
                                           TRUE, TRUE)
    /\ matched.path = <<"/", "x">>

WithPriority(routes, p) == SelectSeq(routes, LAMBDA r : r.priority = p)

Priorities(routes) == {routes[i].priority : i \in 1..Len(routes)}

\* C13: whatever refreshes and reloads happened, get_routes() is sorted by
\* priority in non-increasing order, has |remote| + |local| routes, and for
\* each priority holds exactly the remote and local routes of that priority
\* in the order of the concatenation remote + local (stable sort).
C13_SortedStableMerge ==
    LET all_routes == _remote_routes \o _local_routes
        routes == get_routes
    IN  /\ Len(routes) = Len(_remote_routes) + Len(_local_routes)
        /\ \A i, j \in 1..Len(routes) :
               i < j => routes[i].priority >= routes[j].priority
        /\ Priorities(routes) = Priorities(all_routes)
        /\ \A p \in Priorities(all_routes) :
               WithPriority(routes, p) = WithPriority(all_routes, p)

\* two remote routes of one priority behind a local route, after a failed refresh
C13_Witness ==
    /\ matched.op = "refresh" /\ ~matched.ok
    /\ Len(_remote_routes) = 2
    /\ _remote_routes[1].id = 3 /\ _remote_routes[2].id = 2
    /\ Len(_local_routes) = 1
    /\ get_routes = <<_local_routes[1], _remote_routes[1], _remote_routes[2]>>

\* C14: in get_routes(), whenever a local route and a remote route have the
\* same priority, the local route comes before the remote route.
C14_LocalWinsTies ==
    LET routes == get_routes
    IN  \A i, j \in 1..Len(routes) :
            (/\ routes[i].is_local
             /\ ~routes[j].is_local
             /\ routes[i].priority = routes[j].priority) => i < j

\* the step is a refresh that met the outcome matched'.routes[1]
Refreshed == matched'.op = "refresh"

\* the outcome is one of the failures: a status other than 200, a timeout, a
\* transport error, or a payload with an entry that does not parse
FailedOutcome(out) ==
    \/ out.kind \in {"timeout", "transport_error"}
    \/ out.kind = "response" /\ out.status # 200
    \/ out.kind = "response" /\ out.status = 200
          /\ \E i \in 1..Len(out.payload) : ~out.payload[i].well_formed

\* C15: a refresh that fails (status other than 200, timeout, transport error,
\* payload with a route that does not parse) leaves the remote routes and
\* the local routes as they were and makes registry_available false; a
\* refresh that succeeds replaces the remote routes by those of the payload.
C15_FailedRefreshKeepsRoutes ==
    [][Refreshed =>
        LET out == matched'.routes[1]
        IN  /\ _local_routes' = _local_routes
            /\ FailedOutcome(out)
                  => /\ _remote_routes' = _remote_routes
                     /\ ~_registry_available'
            /\ ~FailedOutcome(out)
                  => /\ Len(_remote_routes') = Len(out.payload)
                     /\ \A i \in 1..Len(out.payload) :
                           /\ _remote_routes'[i].id = out.payload[i].id
                           /\ _remote_routes'[i].path_pattern = out.payload[i].path_pattern
                           /\ _remote_routes'[i].priority = out.payload[i].priority
                           /\ ~_remote_routes'[i].is_local
                     /\ _registry_available']_vars

\* a payload with a malformed entry arrived while remote and local routes were cached
C15_Witness ==
    /\ matched.op = "refresh"
    /\ matched.routes[1].kind = "response"
    /\ matched.routes[1].status = 200
    /\ Len(matched.routes[1].payload) = 2
    /\ matched.routes[1].payload[1].well_formed
    /\ ~matched.routes[1].payload[2].well_formed
    /\ Len(_remote_routes) = 2
    /\ _local_routes # <<>>
    /\ ~_registry_available

\* ------------------------------------------------------------- forwarder claims
\* the attempts proxy_request has made, in order
Attempts == SelectSeq(proxy.trace, LAMBDA e : e.ev = "attempt")

Sleeps == SelectSeq(proxy.trace, LAMBDA e : e.ev = "sleep")

Forwarded == proxy.pc \in {"done", "returned"}

AllTransportErrors ==
    /\ Attempts # <<>>
    /\ \A i \in 1..Len(Attempts) : Attempts[i].kind = "transport_error"

\* C16: when every attempt fails with a transport error that is not a
\* timeout, proxy_request makes max_retries + 1 attempts, sleeps retry_delay
\* between two consecutive attempts and answers 502 with the Bad Gateway
\* body; an attempt that gets a response is the last event of the request.
C16_RetriesThenBadGateway ==
    /\ (Forwarded /\ AllTransportErrors)
          => /\ Len(Attempts) = settings.proxy_max_retries + 1
             /\ Len(proxy.trace) = 2 * settings.proxy_max_retries + 1
             /\ \A i \in 1..Len(proxy.trace) :
                   IF i % 2 = 1 THEN proxy.trace[i].ev = "attempt"
                   ELSE /\ proxy.trace[i].ev = "sleep"
                        /\ proxy.trace[i].delay = settings.proxy_retry_delay
             /\ build_response(proxy).status = 502
             /\ build_response(proxy).body = BadGatewayBody
    /\ \A i \in 1..Len(proxy.trace) :
          proxy.trace[i].kind = "response"
              => i = Len(proxy.trace) /\ Forwarded

C16_Witness ==
    /\ proxy.pc = "done"
    /\ settings.proxy_max_retries = 2
    /\ AllTransportErrors
    /\ Len(Attempts) = 3
    /\ Len(Sleeps) = 2
    /\ proxy.status_code = 502

\* C17: an upstream timeout is not retried: the attempt that times out is
\* the only attempt and the last event of the request, and the client gets 504.
C17_TimeoutNotRetried ==
    \A i \in 1..Len(proxy.trace) :
        proxy.trace[i].kind = "timeout"
            => /\ i = 1
               /\ Len(proxy.trace) = 1
               /\ Forwarded
               /\ build_response(proxy).status = 504

\* a response of the upstream reached proxy_request and the client was answered
Answered == proxy.pc = "returned" /\ proxy.upstream # NoUpstream

\* C18: when the upstream answers with status S, headers H and body B, the
\* client receives status S and body B, and headers that are a subset of H
\* without content-encoding, content-length and transfer-encoding; a 5xx
\* answer is passed through and no attempt follows it.
C18_PassThrough ==
    Answered =>
        /\ proxy.client.status = proxy.upstream.status
        /\ proxy.client.body = proxy.upstream.body
        /\ proxy.client.headers \subseteq proxy.upstream.headers \ StrippedHeaders
        /\ proxy.trace[Len(proxy.trace)].kind = "response"

\* ------------------------------------------------------------- balancer claims
\* a balancer was called, by itself or by the handler
Selected == picked.op \in {"select", "dispatch"}

HealthyInList == {picked.list[i] : i \in 1..Len(picked.list)} \cap picked.was_healthy

\* C19: every policy selects an instance of the list that is healthy, and
\* returns None exactly when the list has no healthy instance; the handler
\* then answers 503, leaves every active_connections as it was and does not
\* call the upstream.
C19_OnlyHealthySelected ==
    /\ Selected
          => /\ picked.result # None => picked.result[1] \in HealthyInList
             /\ picked.result = None <=> HealthyInList = {}
    /\ (picked.op = "dispatch" /\ picked.result = None)
          => /\ picked.status = 503
             /\ ~picked.forwarded
             /\ \A id \in InstanceIds :
                   pool[id].active_connections = picked.connections[id]

\* the handler met an unhealthy target while another request was in flight
C19_Witness ==
    /\ picked.op = "dispatch"
    /\ picked.result = None
    /\ picked.status = 503
    /\ \E id \in InstanceIds : pool[id].active_connections > 0

\* ------------------------------------------------------------- authentication claims
\* the request the plugin has checked
AuthReq == authed.req[1]

RequiresAuth ==
    /\ AuthReq.auth_config # None
    /\ AuthReq.auth_config[1].require_auth

\* the path of the request is none of the public paths of the route
NotPublic ==
    \A i \in 1..Len(AuthReq.auth_config[1].public_paths) :
        ~is_public_by(AuthReq.auth_config[1].public_paths[i], AuthReq.path)

\* no Authorization header, no access_token cookie, no X-Auth-Token header
CarriesNoToken ==
    /\ AuthReq.authorization = None
    /\ AuthReq.cookie = None
    /\ AuthReq.x_auth_token = None

\* the request carries a token and the validation rejects it: the token is
\* shorter than 10, or the auth service of the route answers 401, or the
\* call of the auth service fails and auth_degrade_allow is off
TokenFails ==
    /\ _extract_token(AuthReq) # None
    /\ \/ _extract_token(AuthReq)[1] < 10
       \/ AuthReq.auth_service = <<401>>
       \/ AuthReq.auth_service = <<0>> /\ ~settings.auth_degrade_allow

\* C20: a request to a route with require_auth whose path is not public and
\* which carries no token, or a token the validation rejects, is answered
\* 401 or 302 by the authentication plugin and is not forwarded; a route
\* without auth_config or with require_auth false passes the plugin.
C20_UnauthenticatedShortCircuited ==
    authed.pc # "idle" =>
        /\ (RequiresAuth /\ NotPublic /\ (CarriesNoToken \/ TokenFails))
              => /\ authed.status \in {401, 302}
                 /\ ~authed.forwarded
        /\ ~RequiresAuth => authed.status = 0

\* a short bearer token on a protected path of a browser request
C20_Witness ==
    /\ authed.pc = "answered"
    /\ RequiresAuth
    /\ NotPublic
    /\ TokenFails
    /\ AuthReq.authorization # None
    /\ ~AuthReq.is_api_request
    /\ authed.status = 302
    /\ ~authed.forwarded

\* the validate endpoint of the route's auth service was called for the token
ValidateCalled ==
    /\ authed.pc # "idle"
    /\ RequiresAuth
    /\ NotPublic
    /\ _extract_token(AuthReq) # None
    /\ _extract_token(AuthReq)[1] >= 10
    /\ AuthReq.auth_service # None

\* C21: with an auth service on the route, the token is accepted when the
\* validate call answers 200 and rejected when it answers 401; on any other
\* status, and when the call fails, the request passes exactly when
\* auth_degrade_allow is on.
C21_DegradePolicy ==
    ValidateCalled =>
        LET answer == AuthReq.auth_service[1]
        IN  /\ answer = 200 => authed.status = 0
            /\ answer = 401 => authed.status \in {401, 302}
            /\ answer \notin {200, 401}
                  => (authed.status = 0 <=> settings.auth_degrade_allow)

\* ------------------------------------------------------------ metrics claims
\* C22: every outcome the handler answers with, the 404, the short-circuit
\* responses and the 502/503/504 errors included, is recorded: the global
\* request_count equals the number of requests the handler answered.
C22_EveryOutcomeRecorded ==
    _global.request_count = handled.count

\* ------------------------------------------------------ response headers
\* the handler returned a response or raised an HTTPException
Returned == last.response # NoResponse

\* the response came out of the breaker's after_response hook
ThroughAfterResponse == last.kind = "result" /\ last.out_kind # "exception"

\* the response is the breaker's own rejection
RejectedByBreaker ==
    /\ last.kind = "start"
    /\ last.cb_op = "allow"
    /\ breakers[last.svc].state = OPEN

\* C23 as stated: every response the handler returns, forwarded, short-circuit
\* or error, carries an X-Circuit-State header.
C23_EveryResponseCarriesState ==
    Returned => last.response.x_circuit_state # ""

\* C23: with the breaker enabled, a forwarded response carries X-Circuit-State
\* with the breaker's state after the outcome was recorded, and the breaker's
\* rejection carries "open"; the 401 of the auth filter, the 503 for no
\* instance and the 502 after an exception carry no such header.
C23_CircuitStateHeader ==
    Returned =>
        IF ThroughAfterResponse \/ RejectedByBreaker
        THEN last.response.x_circuit_state = breakers[last.svc].state
        ELSE last.response.x_circuit_state = ""

C23_Witness ==
    /\ ThroughAfterResponse
    /\ last.response.status = 500
    /\ last.response.x_circuit_state = OPEN

\* ------------------------------------------------------ path pattern claims
PathMatched == path_match.op = "match_path"

\* the pattern is a prefix without wildcard followed by the segment tail
PrefixThen(tail) ==
    /\ Len(path_match.pattern) > 2
    /\ EndsWith(path_match.pattern, <<Slash, tail>>)
    /\ \A i \in 1..(Len(path_match.pattern) - 2) :
          path_match.pattern[i] \notin {"*", "**", "{id}"}

PatternPrefix == SubSeq(path_match.pattern, 1, Len(path_match.pattern) - 2)

\* what follows the prefix and the slash behind it
PathTail == SubSeq(path_match.path, Len(PatternPrefix) + 2, Len(path_match.path))

\* C24: a pattern ending in /** matches the bare prefix and every deeper
\* path: /api/** matches /api and /api/a/b.
C24_DoubleStarMatchesBarePrefix ==
    (PathMatched /\ PrefixThen("**"))
        => /\ path_match.path = PatternPrefix => path_match.result
           /\ StartsWith(path_match.path, PatternPrefix \o <<Slash>>) => path_match.result

\* C25: a single * stays inside one path segment: /api/* matches /api/a and
\* does not match /api/a/b.
C25_SingleStarOneSegment ==
    (PathMatched /\ PrefixThen("*") /\ StartsWith(path_match.path, PatternPrefix \o <<Slash>>))
        => (path_match.result <=> NoSlash(PathTail))

\* ------------------------------------------------------ per-IP admission
\* C26: the first request of a client IP that has no bucket yet passes the
\* per-IP dimension: the bucket created for it holds at least one token.
C26_FirstRequestOfIPPasses ==
    \A i \in 1..Len(last.tries) :
        (last.tries[i].dim = "ip" /\ last.tries[i].fresh) => last.tries[i].ok

\* ------------------------------------------------------ breaker counters
\* C27: a success recorded in CLOSED leaves the breaker CLOSED with
\* failure_count 0, and a failure recorded in CLOSED trips the breaker only as
\* the failure_threshold-th failure in a row, no success in between.
C27_OnlyConsecutiveFailuresTrip ==
    \A s \in Services :
        /\ (BreakerOp("success", s) /\ last.cb_pre.state = CLOSED)
              => /\ breakers[s].state = CLOSED
                 /\ breakers[s].failure_count = 0
        /\ (BreakerOp("failure", s) /\ last.cb_pre.state = CLOSED
                /\ breakers[s].state = OPEN)
              => streak[s] = failure_threshold

C27_Witness ==
    \E s \in Services :
        /\ BreakerOp("success", s)
        /\ last.cb_pre.state = CLOSED
        /\ last.cb_pre.failure_count = 1
        /\ breakers[s].failure_count = 0

\* the last step was an admission check that moved the OPEN breaker of s to HALF_OPEN
ProbeAdmitted(s) ==
    /\ last.kind = "start"
    /\ BreakerOp("allow", s)
    /\ last.cb_pre.state = OPEN
    /\ breakers[s].state = HALF_OPEN

\* C29: a failure recorded in any state of the breaker stamps last_failure_time
\* with the current time, and an OPEN breaker admits its probe no earlier than
\* timeout after the most recent recorded failure.
C29_TimeoutCountsFromLastFailure ==
    \A s \in Services :
        /\ BreakerOp("failure", s) => breakers[s].last_failure_time = now
        /\ ProbeAdmitted(s) => now - failed_at[s] >= timeout

\* a failure of a request admitted before the trip arrives at the OPEN
\* breaker after the trip and moves the stamp
C29_Witness ==
    \E s \in Services :
        /\ BreakerOp("failure", s)
        /\ last.cb_pre.state = OPEN
        /\ last.cb_pre.last_failure_time < now
        /\ breakers[s].state = OPEN
        /\ breakers[s].last_failure_time = now

\* C30: in every breaker, whatever the interleaving of admission checks and
\* recorded results, failure_count stays below failure_threshold,
\* success_count stays below success_threshold, and success_count is 0 in CLOSED.
C30_CountersInRange ==
    \A s \in DOMAIN breakers :
        /\ breakers[s].failure_count >= 0
        /\ breakers[s].failure_count < failure_threshold
        /\ breakers[s].success_count >= 0
        /\ breakers[s].success_count < success_threshold
        /\ breakers[s].state = CLOSED => breakers[s].success_count = 0

\* a failure recorded while OPEN has left a count behind
C30_Witness ==
    \E s \in DOMAIN breakers :
        /\ breakers[s].state = OPEN
        /\ breakers[s].failure_count = 1
        /\ BreakerOp("failure", s)
        /\ last.cb_pre.state = OPEN

\* ------------------------------------------------------ breaker recovery
BreakerIn(state, s) == s \in DOMAIN breakers /\ breakers[s].state = state

ShortCircuits ==
    /\ last'.kind = "start"
    /\ \/ last'.response.status \in {401, 302, 429}
       \/ last'.response.status = 503 /\ last'.response.x_circuit_state # ""

\* C31: a request short-circuited by the auth filter, the rate limiter or the
\* breaker's rejection leaves every breaker as it was: state, failure_count,
\* success_count and last_failure_time.
C31_ShortCircuitLeavesBreakers ==
    [][ShortCircuits => breakers' = breakers]_vars

\* a rate-limited request met an OPEN breaker whose timeout had elapsed, and
\* the breaker is still OPEN
C31_Witness ==
    /\ last.kind = "start"
    /\ last.response.status = 429
    /\ "svc" \in DOMAIN breakers
    /\ breakers["svc"].state = OPEN
    /\ now - breakers["svc"].last_failure_time >= timeout

\* ------------------------------------------------------ consumed tokens
\* the tokens the bucket of the route holds before the step, refilled; a
\* missing bucket is created full
RouteTokensBefore(route) ==
    IF route \in DOMAIN route_buckets
    THEN Refilled(route_buckets[route], now)
    ELSE Capacity(settings.rate_limit_per_route_qps)

\* the step answers 429 for the dimension dim
RejectedAt(dim) ==
    /\ last'.kind = "start"
    /\ last'.response.status = 429
    /\ last'.response.x_ratelimit_type = dim

\* C32: a request rejected at the global dimension takes no token and creates
\* no bucket; one rejected at the per-route dimension has taken one global
\* token; one rejected at the per-IP dimension has taken one global and one
\* per-route token. Nothing is given back.
C32_ConsumedTokensStay ==
    [][/\ RejectedAt("global")
            => /\ global_bucket'.tokens = Refilled(global_bucket, now)
               /\ route_buckets' = route_buckets
               /\ ip_buckets' = ip_buckets
       /\ RejectedAt("route")
            => /\ global_bucket'.tokens = Refilled(global_bucket, now) - TokenScale
               /\ DOMAIN ip_buckets' = DOMAIN ip_buckets
       /\ RejectedAt("ip")
            => /\ global_bucket'.tokens = Refilled(global_bucket, now) - TokenScale
               /\ \A r \in Routes :
                     route_buckets'[r].tokens = RouteTokensBefore(r) - TokenScale
      ]_vars

C32_Witness ==
    /\ last.kind = "start"
    /\ last.response.x_ratelimit_type = "ip"
    /\ Len(last.tries) = 3
    /\ last.tries[2].fresh
    /\ last.tries[2].post.tokens = last.tries[2].pre.tokens - TokenScale
    /\ ~last.tries[3].ok

\* ------------------------------------------------------ round robin
RoundRobin == settings.load_balance_strategy = "round_robin"

\* the step is a call of the balancer that returns an instance
SelectsInstance ==
    /\ picked'.op \in {"select", "dispatch"}
    /\ picked'.result # None

\* the call before was made on the same list with the same instances healthy
SameAsBefore ==
    /\ Selected
    /\ picked.result # None
    /\ picked.list = picked'.list
    /\ picked.was_healthy = picked'.was_healthy

C34_SameObjectReleased ==
    [][/\ \A i \in Instances :
             active_connections'[i] - active_connections[i]
                = in_flight'[i] - in_flight[i]
       /\ generation' # generation => active_connections' = active_connections
      ]_vars

\* requests are in flight on the object of the old and of the new route table
C34_Witness ==
    /\ generation = 1
    /\ active_connections[<<"svc", 0>>] = 1
    /\ in_flight[<<"svc", 0>>] = 1
    /\ active_connections[<<"svc", 1>>] = 1

\* ------------------------------------------------------ lock claims
\* C35: a task that is suspended on an auth call, on the request body, on an
\* upstream call, on a sleep or on a registry call holds no lock, and a task
\* that waits for a lock holds no other one.
C35_NoLockAcrossAwait ==
    \A t \in Tasks :
        at(t).kind \in {"suspend", "acquire"} => tasks[t].held = {}

\* a handler waits for the rate limiter's lock while the janitor is inside it
\* and another handler is suspended on its upstream call
C35_Witness ==
    \E t, w \in Tasks :
        /\ t # w
        /\ at(t) = acquire_lock("rate_limit")
        /\ at(<<"janitor", 0>>) = update("rate_limit")
        /\ "rate_limit" \in tasks[<<"janitor", 0>>].held
        /\ at(w) = suspend("upstream_call")

\* ------------------------------------------------------ metrics buckets
\* the recorded samples that went to a bucket: all of them to the global one,
\* those of the route or of the service to the others
AllSamples == handled.samples
SamplesOfRoute(r) == SelectSeq(handled.samples, LAMBDA x : x.route = r)
SamplesOfService(v) == SelectSeq(handled.samples, LAMBDA x : x.service = v)

\* the sum of f over the set S
RECURSIVE SumOver(_, _)
SumOver(f, S) ==
    IF S = {} THEN 0
    ELSE LET x == CHOOSE y \in S : TRUE
         IN  f[x] + SumOver(f, S \ {x})

CountOf(samples, status) ==
    Cardinality({i \in 1..Len(samples) : samples[i].status = status})

\* the counters of the bucket agree with the samples recorded into it
Tallies(bucket, samples) ==
    /\ bucket.request_count = Len(samples)
    /\ \A st \in MetricStatuses : bucket.status_codes[st] = CountOf(samples, st)
    /\ bucket.request_count = SumOver(bucket.status_codes, MetricStatuses)
    /\ bucket.error_count
          = Cardinality({i \in 1..Len(samples) : samples[i].status >= 400})

\* C36: the three buckets move together: the global request_count is the sum
\* of the per-route and of the per-service request_counts, and in every
\* bucket request_count is the sum of the status_codes counts and error_count
\* the number of recorded statuses from 400 up.
C36_BucketsAgree ==
    /\ _global.request_count
          = SumOver([r \in DOMAIN _by_route |-> _by_route[r].request_count],
                    DOMAIN _by_route)
    /\ _global.request_count
          = SumOver([v \in DOMAIN _by_service |-> _by_service[v].request_count],
                    DOMAIN _by_service)
    /\ Tallies(_global, AllSamples)
    /\ \A r \in DOMAIN _by_route : Tallies(_by_route[r], SamplesOfRoute(r))
    /\ \A v \in DOMAIN _by_service : Tallies(_by_service[v], SamplesOfService(v))

C36_Witness ==
    /\ _global.request_count = 3
    /\ _global.error_count = 2
    /\ DOMAIN _by_route = MetricRoutes
    /\ \E r \in MetricRoutes : _by_route[r].request_count = 2

\* the last n elements of seq
LastOf(seq, n) == SubSeq(seq, Len(seq) - n + 1, Len(seq))

LatenciesOf(samples) == [i \in 1..Len(samples) |-> samples[i].latency_ms]

\* the window of the bucket holds the newest samples recorded into it, oldest first
WindowHolds(bucket, samples) ==
    /\ Len(bucket.latencies) <= window_size
    /\ bucket.latencies
          = LastOf(LatenciesOf(samples), Min(bucket.request_count, window_size))

\* C37: the latency window of every bucket holds the most recent
\* min(request_count, window_size) samples in arrival order; a sample that
\* arrives at a full window evicts the oldest one.
C37_WindowKeepsNewest ==
    /\ WindowHolds(_global, AllSamples)
    /\ \A r \in DOMAIN _by_route : WindowHolds(_by_route[r], SamplesOfRoute(r))
    /\ \A v \in DOMAIN _by_service : WindowHolds(_by_service[v], SamplesOfService(v))

\* the window was full and the oldest sample, unlike the newer ones, is gone
C37_Witness ==
    /\ Len(handled.samples) = window_size + 1
    /\ handled.samples[1].latency_ms = 1
    /\ \A i \in 2..Len(handled.samples) : handled.samples[i].latency_ms = 2
    /\ _global.latencies = [i \in 1..window_size |-> 2]

\* ------------------------------------------------------ bucket janitor
\* the step is a run of the janitor
JanitorRuns == now' = now /\ unswept'.op = "cleanup"

\* the keys of the buckets that were used within the threshold
UsedWithin(buckets, seconds) ==
    {k \in DOMAIN buckets : now - buckets[k].last_refill <= seconds * TicksPerSec}

\* C38: a janitor run removes exactly the per-route and per-IP buckets that
\* were idle for more than the threshold; the global bucket and every bucket
\* used within the threshold stay as they are, and no acquisition happens
\* within the run.
C38_JanitorRemovesIdleOnly ==
    [][JanitorRuns =>
          /\ global_bucket' = global_bucket
          /\ DOMAIN route_buckets' = UsedWithin(route_buckets, max_idle_seconds)
          /\ DOMAIN ip_buckets' = UsedWithin(ip_buckets, max_idle_seconds)
          /\ \A k \in DOMAIN route_buckets' : route_buckets'[k] = route_buckets[k]
          /\ \A k \in DOMAIN ip_buckets' : ip_buckets'[k] = ip_buckets[k]
          /\ unswept'.global_bucket = unswept.global_bucket
          /\ unswept'.route_buckets = unswept.route_buckets
          /\ unswept'.ip_buckets = unswept.ip_buckets]_vars

\* the janitor removed one IP's bucket and kept the other's
C38_Witness ==
    /\ unswept.op = "cleanup"
    /\ unswept.cleaned >= 1
    /\ \E kept, gone \in IPs :
          /\ kept \in DOMAIN ip_buckets
          /\ gone \in DOMAIN unswept.ip_buckets \ DOMAIN ip_buckets

\* a bucket refills completely within the idle threshold
RefillsWithinIdle ==
    settings.rate_limit_burst_multiplier <= max_idle_seconds * BurstDen

\* C39: when a bucket refills completely within the idle threshold, the
\* limiter with the janitor and the one without answer every request alike.
C39_EvictionUnobservable ==
    (RefillsWithinIdle /\ unswept.op = "before_request")
        => unswept.response = unswept.twin_response

\* a request is answered from buckets that the janitor had evicted
C39_Witness ==
    /\ RefillsWithinIdle
    /\ unswept.op = "before_request"
    /\ unswept.recreated = {"route", "ip"}
    /\ unswept.response = unswept.twin_response

\* ------------------------------------------------------ public paths
\* C40: the public-path check of the auth filter with a single pattern
\* answers as RouteMatcher.match_path does on the same pattern and path.
C40_PublicCheckAgreesWithMatcher ==
    PathMatched
        => (is_public_by(path_match.pattern, path_match.path) <=> path_match.result)
====
